---- MODULE Spec2Model ----
(***************************************************************************)
(* Verification model of the TellMeMore browser extension: the subtitle    *)
(* capture pipeline (BaseSubtitleObserver and its Netflix subclass), the   *)
(* content-script glue that persists captured lines (TellMeMoreApp), the   *)
(* SubtitleStorageManager and the AIResponseService.                       *)
(*                                                                         *)
(* Time is measured in milliseconds.  Date.now() is not kept as an         *)
(* absolute value: every place where the code subtracts two readings of    *)
(* the clock is modelled by a clock variable that holds the difference and *)
(* advances with the Tick action (saturating at a cap above every value    *)
(* the code compares it with).  A timer is modelled by the time left until *)
(* it is due; Tick is disabled while a timer is due, so a due timer runs   *)
(* before time advances.                                                   *)
(***************************************************************************)
EXTENDS Integers, Sequences, FiniteSets, TLC

VARIABLES
  \* ---- the page (environment) ----
  domContainer,      \* element matched by getSubtitleContainer(): 0 = none
  domText,           \* raw text inside each container element
  domBudget,         \* page events still allowed (bounds the exploration)
  \* ---- BaseSubtitleObserver / NetflixSubtitleObserver fields ----
  platform,          \* platform the observer was created for
  phase,             \* "idle" | "running" | "stopped" | "disabled"
  settings,          \* [subtitleMode]
  lastSubtitle,      \* this.lastSubtitle
  sinceProcess,      \* Date.now() - this.lastProcessTime (saturating)
  observer,          \* this.observer: 0 = null, else the element it watches
  leakedObservers,   \* attached MutationObservers no field refers to any more
  lastContainer,     \* this.lastContainer: 0 = null
  processingTimeout, \* this.processingTimeout # null
  debounceTimer,     \* the pending debounce timeout, or NoTimer
  pollingInterval,   \* time left of the interval in this.pollingInterval, -1 = null
  leakedPolls,       \* running intervals no field refers to any more
  retryTimer,        \* time left of the container-lookup retry timeout, -1 = none
  initialChecks,     \* pending "initial check" timeouts
  checkInterval,     \* time left of the Netflix periodic check, -1 = null
  capturedSubtitles, \* the shared capture buffer
  storageCallback,   \* this.storageCallback is set
  \* ---- TellMeMoreApp fields and the persisted store ----
  currentSessionId,  \* 0 = null
  components,        \* the overlay, chat panel and observer the app has made
  lastSavedSubtitle,
  sinceSaved,        \* Date.now() - this.lastSavedTime (saturating)
  saves,             \* saveSubtitleToStorage calls suspended at an await
  settingsSync,      \* this.settings, the stored settings, storage traffic
  subtitlesKey,      \* chrome.storage.local['movie_assistant_subtitles']
  sessionsKey,       \* chrome.storage.local['movie_assistant_sessions']
  nextId,            \* source of generateId()
  \* ---- AIResponseService.getAIResponse ----
  ai,                \* getAIResponse calls (settings, position, outcome); the chat panel
  \* ---- NetflixSubtitleObserver content fields and the page they read ----
  content,           \* URL content id, caches, fallback title; history
  \* ---- history variables (read by the properties only) ----
  hist,              \* history of the capture pipeline
  lastOp,            \* the last SubtitleStorageManager operation and its inputs
  \* ---- the clock of the storage operations ----
  now                \* Date.now(), in steps of one operation

vars == << domContainer, domText, domBudget, platform, phase, settings,
           lastSubtitle, sinceProcess, observer, leakedObservers, lastContainer,
           processingTimeout, debounceTimer, pollingInterval, leakedPolls,
           retryTimer, initialChecks, checkInterval, capturedSubtitles,
           storageCallback, currentSessionId, components, lastSavedSubtitle,
           sinceSaved, saves, settingsSync, subtitlesKey, sessionsKey, nextId, ai,
           content, hist, lastOp,
           now >>

pageVars == << domContainer, domText, domBudget >>
observerVars == << platform, phase, settings, lastSubtitle, sinceProcess,
                   observer, leakedObservers, lastContainer, processingTimeout,
                   debounceTimer, pollingInterval, leakedPolls, retryTimer,
                   initialChecks, checkInterval, capturedSubtitles,
                   storageCallback >>
appVars == << currentSessionId, components, lastSavedSubtitle, sinceSaved, saves,
             settingsSync >>
storeVars == << subtitlesKey, sessionsKey, nextId >>

(***************************************************************************)
(* Text.  A string is a sequence of tokens; a token is either a whitespace *)
(* character or a word (a maximal run of non-whitespace characters).       *)
(***************************************************************************)
Whitespace == {" ", "\n"}

IsSpace(c) == c \in Whitespace

RECURSIVE trimStart(_)
trimStart(s) ==
  IF s = << >> THEN << >>
  ELSE IF IsSpace(Head(s)) THEN trimStart(Tail(s)) ELSE s

RECURSIVE trimEnd(_)
trimEnd(s) ==
  IF s = << >> THEN << >>
  ELSE IF IsSpace(s[Len(s)]) THEN trimEnd(SubSeq(s, 1, Len(s) - 1)) ELSE s

\* String.prototype.trim
trim(s) == trimEnd(trimStart(s))

\* s.replace(/\s+/g, ' '): every maximal whitespace run becomes one space
RECURSIVE collapseWhitespace(_)
collapseWhitespace(s) ==
  IF s = << >> THEN << >>
  ELSE IF IsSpace(Head(s))
       THEN << " " >> \o collapseWhitespace(trimStart(Tail(s)))
       ELSE << Head(s) >> \o collapseWhitespace(Tail(s))

\* currentText.trim().replace(/\s+/g, ' ')
normalize(s) == collapseWhitespace(trim(s))

EmptyText == << >>

(***************************************************************************)
(* Program constants (milliseconds, counts).                               *)
(***************************************************************************)
MIN_PROCESS_INTERVAL == 200
DEBOUNCE_DELAY == 50
INITIAL_CHECK_DELAY == 100
POLL_INTERVAL == 500
CHECK_INTERVAL == 2000
MAX_CAPTURED == 50
MIN_SAVE_INTERVAL == 1000
MAX_SUBTITLES == 10000
NETFLIX_RETRY_INTERVAL == 1000
DISNEY_RETRY_INTERVAL == 1500
AMAZON_RETRY_INTERVAL == 1200

\* PlatformConfig.retryInterval, handed to the observer by the factory
retryInterval(p) ==
  IF p = "netflix" THEN NETFLIX_RETRY_INTERVAL
  ELSE IF p = "amazon" THEN AMAZON_RETRY_INTERVAL ELSE DISNEY_RETRY_INTERVAL

(***************************************************************************)
(* Bounds of the exploration.                                              *)
(***************************************************************************)
MaxDomEvents == 2      \* page events (text, attribute, container, settings)
MaxSaveTicks == 4      \* a storage round trip takes at most this many ticks
MaxCaptions == 52      \* captions shown one after the other (buffer specification)
MaxClears == 1         \* clearSubtitles calls (buffer specification)
MaxCount == 3          \* the counters of the history saturate here
MaxStops == 3          \* stop() calls counted and allowed
MaxStoreOps == 4       \* storage manager operations (storage specification)
CapGap == 2            \* room left in a nearly full entry collection

\* Time advances in steps of the shortest delay of the program.
TickMs == DEBOUNCE_DELAY
\* sinceProcess saturates here: above MIN_PROCESS_INTERVAL, the only value
\* it is compared with.
ProcessClockCap == MIN_PROCESS_INTERVAL + 2 * TickMs

Min(a, b) == IF a < b THEN a ELSE b

Elements == {1, 2}
NoTimer == [left |-> -1, elem |-> 0]
Modes == {"On", "On (hidden)", "Off"}

\* Raw texts the page puts into a caption container.
Hello == << "Hello." >>
HelloThere == << "Hello", " ", "there." >>
HelloThereWide == << "Hello", " ", "\n", "there.", " " >>
Blank == << " " >>
ScreenTexts == { EmptyText, Blank, Hello, HelloThere, HelloThereWide }

(***************************************************************************)
(* BaseSubtitleObserver: pure parts.                                       *)
(***************************************************************************)
\* extractSubtitleText: every platform returns the trimmed container text
extractSubtitleText(raw) == trim(raw)

\* Variants of the guards, each wrong in one respect.
\* the duplicate test on the raw text, without normalizing
AcceptsSubtitle_RawCompare(mode, currentText, last, elapsed) ==
  /\ mode # "Off"
  /\ ~ (currentText = EmptyText \/ trim(currentText) = EmptyText)
  /\ currentText # last
  /\ ~ (elapsed < MIN_PROCESS_INTERVAL)

\* no throttle
AcceptsSubtitle_NoThrottle(mode, currentText, last, elapsed) ==
  /\ mode # "Off"
  /\ ~ (currentText = EmptyText \/ trim(currentText) = EmptyText)
  /\ normalize(currentText) # normalize(last)

\* the throttle rejects a reading exactly MIN_PROCESS_INTERVAL after the last
AcceptsSubtitle_StrictThrottle(mode, currentText, last, elapsed) ==
  /\ mode # "Off"
  /\ ~ (currentText = EmptyText \/ trim(currentText) = EmptyText)
  /\ normalize(currentText) # normalize(last)
  /\ ~ (elapsed <= MIN_PROCESS_INTERVAL)

\* the duplicate test trims, but does not collapse inner whitespace
AcceptsSubtitle_TrimOnly(mode, currentText, last, elapsed) ==
  /\ mode # "Off"
  /\ ~ (currentText = EmptyText \/ trim(currentText) = EmptyText)
  /\ trim(currentText) # trim(last)
  /\ ~ (elapsed < MIN_PROCESS_INTERVAL)

\* empty and whitespace-only readings are not skipped
AcceptsSubtitle_NoEmptyTest(mode, currentText, last, elapsed) ==
  /\ mode # "Off"
  /\ normalize(currentText) # normalize(last)
  /\ ~ (elapsed < MIN_PROCESS_INTERVAL)

\* the mode is not looked at
AcceptsSubtitle_IgnoresMode(mode, currentText, last, elapsed) ==
  /\ ~ (currentText = EmptyText \/ trim(currentText) = EmptyText)
  /\ normalize(currentText) # normalize(last)
  /\ ~ (elapsed < MIN_PROCESS_INTERVAL)

\* processSubtitleChanges: the guards in front of handleNewSubtitle
AcceptsSubtitle(mode, currentText, last, elapsed) ==
  /\ mode # "Off"
  /\ ~ (currentText = EmptyText \/ trim(currentText) = EmptyText)
  /\ normalize(currentText) # normalize(last)
  /\ ~ (elapsed < MIN_PROCESS_INTERVAL)

\* Variants of the push: the cap compared one too high; the newest dropped.
pushCaptured_OffByOne(buf, text) ==
  LET pushed == Append(buf, text)
  IN IF Len(pushed) > MAX_CAPTURED + 1
     THEN SubSeq(pushed, Len(pushed) - MAX_CAPTURED + 1, Len(pushed))
     ELSE pushed

\* A variant of handleNewSubtitle that always makes the legacy write.
usesLegacy_Always(callbackSet) == TRUE

\* handleNewSubtitle: saveLegacySubtitle is called when no storage callback is
\* set
usesLegacy(callbackSet) == ~ callbackSet

\* handleNewSubtitle: push, then keep the last MAX_CAPTURED lines
pushCaptured(buf, text) ==
  LET pushed == Append(buf, text)
  IN IF Len(pushed) > MAX_CAPTURED
     THEN SubSeq(pushed, Len(pushed) - MAX_CAPTURED + 1, Len(pushed))
     ELSE pushed

(***************************************************************************)
(* TellMeMoreApp.saveSubtitleToStorage and SubtitleStorageManager: pure    *)
(* parts.                                                                  *)
(***************************************************************************)
\* A variant of the test that saves without looking at the session id.
StartsSave_NoSessionTest(session, subtitle, lastSaved, elapsed) ==
  /\ ~ (trim(subtitle) = EmptyText)
  /\ ~ (normalize(subtitle) = lastSaved /\ elapsed < MIN_SAVE_INTERVAL)

\* saveSubtitleToStorage up to its await: does the call go on to saveSubtitle?
StartsSave(session, subtitle, lastSaved, elapsed) ==
  /\ ~ (session = 0 \/ trim(subtitle) = EmptyText)
  /\ ~ (normalize(subtitle) = lastSaved /\ elapsed < MIN_SAVE_INTERVAL)

\* A variant of saveSubtitle that cuts the collection at its head.
saveSubtitleResult_DropsNewest(subtitles, entry) ==
  LET added == << entry >> \o subtitles
  IN IF Len(added) > MAX_SUBTITLES
     THEN SubSeq(added, Len(added) - MAX_SUBTITLES + 1, Len(added))
     ELSE added

\* A variant of saveSubtitle that adds the entry at the end.
saveSubtitleResult_Push(subtitles, entry) ==
  LET added == Append(subtitles, entry)
  IN IF Len(added) > MAX_SUBTITLES
     THEN SubSeq(added, 1, MAX_SUBTITLES)
     ELSE added

\* saveSubtitle after getAllSubtitles: unshift, then splice(MAX_SUBTITLES)
saveSubtitleResult(subtitles, entry) ==
  LET added == << entry >> \o subtitles
  IN IF Len(added) > MAX_SUBTITLES
     THEN SubSeq(added, 1, MAX_SUBTITLES)
     ELSE added

(***************************************************************************)
(* Timers and watchers that exist several times over are kept as sets of   *)
(* records; the field n tells identical ones apart.                        *)
(***************************************************************************)
AddCopy(S, r) ==
  LET k == CHOOSE k \in 0..Cardinality(S) :
             /\ [r EXCEPT !.n = k] \notin S
             /\ \A j \in 0..(k - 1) : [r EXCEPT !.n = j] \in S
  IN S \cup { [r EXCEPT !.n = k] }

Elapse(S) == { [t EXCEPT !.left = t.left - TickMs] : t \in S }

\* Elements that have at least one MutationObserver attached
Watched ==
  (IF observer # 0 THEN {observer} ELSE {}) \cup { w.elem : w \in leakedObservers }

(***************************************************************************)
(* History variables.                                                      *)
(***************************************************************************)
\* The periodic check has found the container gone while a watcher was
\* attached ("lost") and has attached a watcher again ("resumed").
NoLoss ==
  [ stage |-> "none",
    subtitle |-> EmptyText,      \* lastSubtitle when the watcher was disconnected
    accepted |-> FALSE,          \* a caption was accepted since then
    reread |-> FALSE,            \* after "resumed", that subtitle was read again
    reaccepted |-> FALSE ]       \* ... and accepted again

HistInit ==
  [ appends      |-> 0,          \* buffer appends so far (saturating)
    calls        |-> 0,          \* storage callback invocations so far (saturating)
    sinceAccept  |-> ProcessClockCap, \* time since the last append (saturating)
    lastGap      |-> ProcessClockCap, \* sinceAccept at the last append
    lastAccepted |-> EmptyText,  \* text of the last append
    sinceClear   |-> << >>,      \* every text appended since the last clearSubtitles
    clears       |-> 0,          \* clearSubtitles calls so far
    runNorm      |-> EmptyText,  \* normalized text of the current run of equal readings
    runLen       |-> 0,          \* readings in the run (saturating at 2)
    runFirst     |-> FALSE,      \* the first reading of the run was accepted
    events       |-> 0,          \* 'crx-subtitle-captured' events dispatched
    runAppends   |-> 0,          \* appends caused by the run
    runCalls     |-> 0,          \* storage callback invocations caused by the run
    runSaves     |-> 0,          \* saveSubtitle calls started by the run
    runEligible  |-> FALSE,      \* a reading of the run was new and past the throttle
    saveStarts   |-> 0,          \* saveSubtitle calls started so far (saturating)
    overlap      |-> FALSE,      \* two saveSubtitle calls were in flight together
    last         |-> [text |-> EmptyText, mode |-> "Off", elapsed |-> 0,
                      prev |-> EmptyText, accepted |-> FALSE, before |-> << >>,
                      callback |-> 0, legacy |-> 0, events |-> 0, count |-> 0],
    scen         |-> 0,          \* position in the 'Hello.' scenario
    sinceReading |-> ProcessClockCap, \* time since the last caption reading
    stops        |-> 0,          \* stop() calls made
    completed    |-> {},         \* session operations that have returned
    bursts       |-> 0,          \* bursts of relevant mutation events begun
    cancelled    |-> 0,          \* bursts whose timeout another mutation cleared
    watcherCalls |-> 0,          \* processSubtitleChanges calls of the debounce timeout
    missed       |-> FALSE,      \* the mutation event of a text change was missed
    afterStop    |-> {},         \* what callbacks did after stop()
    loss         |-> NoLoss,     \* the last loss of the caption container
    pause        |-> "none" ]    \* "off": a call ran under mode 'Off';
                                 \* "resumed": a caption was accepted after that

\* The position in the scenario: 'Hello.' as the first caption read, 'Hello.'
\* read again within 100 ms, then 'Hello there.' read 300 ms later.
\* 0 nothing read, 1 first 'Hello.' read, 2 'Hello.' re-read in time,
\* 3 'Hello there.' read 300 ms later, 4 the run left the scenario.
ScenNext(text) ==
  CASE hist.scen = 0 -> IF text = Hello THEN 1 ELSE 4
    [] hist.scen = 1 -> IF text = Hello /\ hist.sinceReading <= 100 THEN 2 ELSE 4
    [] hist.scen = 2 -> IF text = Hello THEN 2
                        ELSE IF text = HelloThere /\ hist.sinceReading >= 300
                             THEN 3 ELSE 4
    [] OTHER -> 4

\* hist.loss after a reading, and after the periodic check
HistLossRead(reading, currentText, accepted) ==
  LET again == /\ hist.loss.stage = "resumed"
               /\ reading
               /\ ~ hist.loss.accepted
               /\ normalize(currentText) = normalize(hist.loss.subtitle)
  IN [ hist.loss EXCEPT
         !.accepted = (@ \/ (hist.loss.stage # "none" /\ accepted)),
         !.reread = (@ \/ again),
         !.reaccepted = (@ \/ (again /\ accepted)) ]

HistLost(h) ==
  [ h EXCEPT !.loss = [ NoLoss EXCEPT !.stage = "lost", !.subtitle = lastSubtitle ] ]

HistResumed(h) ==
  IF h.loss.stage = "lost" THEN [ h EXCEPT !.loss.stage = "resumed" ] ELSE h

\* hist after one processSubtitleChanges call that read currentText
HistProcess(currentText, accepted, called, legacy, saved) ==
  LET reading == settings.subtitleMode # "Off" /\ trim(currentText) # EmptyText
      sameRun == reading /\ normalize(currentText) = hist.runNorm
      eligible == /\ reading
                  /\ normalize(currentText) # normalize(hist.lastAccepted)
                  /\ hist.sinceAccept >= MIN_PROCESS_INTERVAL
      inc(b)  == IF b THEN 1 ELSE 0
      scen    == IF reading THEN ScenNext(currentText) ELSE hist.scen
  IN [ hist EXCEPT
         !.appends      = Min(@ + inc(accepted), MaxCount),
         !.calls        = Min(@ + inc(called), MaxCount),
         !.events       = Min(@ + inc(accepted), MaxCount),
         !.sinceAccept  = IF accepted THEN 0 ELSE @,
         !.lastGap      = IF accepted THEN hist.sinceAccept ELSE @,
         !.lastAccepted = IF accepted THEN currentText ELSE @,
         !.sinceClear   = IF accepted THEN Append(@, currentText) ELSE @,
         !.runNorm      = IF reading THEN normalize(currentText) ELSE @,
         !.runLen       = IF ~ reading THEN @ ELSE IF sameRun THEN Min(@ + 1, 2) ELSE 1,
         !.runFirst     = IF ~ reading THEN @ ELSE IF sameRun THEN @ ELSE accepted,
         !.runAppends   = IF ~ reading THEN @ ELSE IF sameRun THEN @ + inc(accepted)
                          ELSE inc(accepted),
         !.runCalls     = IF ~ reading THEN @ ELSE IF sameRun THEN @ + inc(called)
                          ELSE inc(called),
         !.runSaves     = IF ~ reading THEN @ ELSE IF sameRun THEN @ + inc(saved)
                          ELSE inc(saved),
         !.runEligible  = IF ~ reading THEN @ ELSE IF sameRun THEN (@ \/ eligible)
                          ELSE eligible,
         !.saveStarts   = Min(@ + inc(saved), MaxCount),
         !.overlap      = (@ \/ (saved /\ saves # << >>)),
         !.last         = [text |-> currentText, mode |-> settings.subtitleMode,
                           elapsed |-> hist.sinceAccept, prev |-> hist.lastAccepted,
                           accepted |-> accepted, before |-> capturedSubtitles,
                           callback |-> inc(called), legacy |-> inc(legacy),
                           events |-> inc(accepted),
                           count |-> IF accepted
                                     THEN Len(pushCaptured(capturedSubtitles,
                                                           currentText))
                                     ELSE 0],
         !.scen         = scen,
         !.sinceReading = IF scen \in {1, 2} THEN (IF reading THEN 0 ELSE @)
                          ELSE ProcessClockCap,
         !.afterStop    = IF phase = "stopped" /\ accepted THEN @ \cup {"append"}
                          ELSE @,
         !.loss         = HistLossRead(reading, currentText, accepted),
         !.pause        = IF settings.subtitleMode = "Off" THEN "off"
                          ELSE IF accepted /\ @ = "off" THEN "resumed" ELSE @ ]

HistTick ==
  [ hist EXCEPT
      !.sinceAccept  = Min(@ + TickMs, ProcessClockCap),
      !.sinceReading = Min(@ + TickMs, ProcessClockCap) ]

(***************************************************************************)
(* BaseSubtitleObserver.processSubtitleChanges and handleNewSubtitle, with *)
(* the storage callback the app installs (saveSubtitleToStorage up to its  *)
(* first await).  elem = 0 stands for a poll that finds lastContainer null.*)
(***************************************************************************)
\* timestamp: Date.now() of the call, kept as the ordinal of the acceptance
NewSave(text) ==
  [ op |-> "saveSubtitle", text |-> text, sessionId |-> currentSessionId,
    stage |-> "get", subs |-> << >>, age |-> 0,
    timestamp |-> Len(hist.sinceClear) + 1 ]

\* watcher: the call is made by the debounce timeout of the watcher
ProcessSubtitleChangesBy(elem, watcher) ==
  IF elem = 0
  THEN UNCHANGED << lastSubtitle, sinceProcess, capturedSubtitles, saves, hist, settingsSync >>
  ELSE
    LET currentText == extractSubtitleText(domText[elem])
        accepted == AcceptsSubtitle(settings.subtitleMode, currentText,
                                    lastSubtitle, sinceProcess)
        called == accepted /\ storageCallback
        legacy == accepted /\ usesLegacy(storageCallback)
        saved == called /\ StartsSave(currentSessionId, currentText,
                                      lastSavedSubtitle, sinceSaved)
    IN /\ lastSubtitle' = IF accepted THEN currentText ELSE lastSubtitle
       /\ sinceProcess' = IF accepted THEN 0 ELSE sinceProcess
       /\ capturedSubtitles' =
            IF accepted THEN pushCaptured(capturedSubtitles, currentText)
            ELSE capturedSubtitles
       /\ saves' = IF saved THEN Append(saves, NewSave(currentText)) ELSE saves
       /\ hist' = [ HistProcess(currentText, accepted, called, legacy, saved)
                      EXCEPT !.watcherCalls =
                               IF watcher THEN Min(@ + 1, MaxCount) ELSE @ ]

ProcessSubtitleChanges(elem) == ProcessSubtitleChangesBy(elem, FALSE)

(***************************************************************************)
(* BaseSubtitleObserver.observeSubtitles (with startPolling).  The caller  *)
(* says what the retry timer is when no new one is set.                    *)
(***************************************************************************)
\* A variant that does not look again when the container is missing.
ObserveSubtitles_GivesUp(retryLeft) ==
  IF domContainer = 0
  THEN /\ retryTimer' = -1
       /\ UNCHANGED << observer, leakedObservers, initialChecks, lastContainer,
                       pollingInterval, leakedPolls, settingsSync >>
  ELSE /\ retryTimer' = retryLeft
       /\ observer' = domContainer
       /\ leakedObservers' =
            IF observer # 0
            THEN AddCopy(leakedObservers, [elem |-> observer, n |-> 0])
            ELSE leakedObservers
       /\ initialChecks' =
            AddCopy(initialChecks,
                    [left |-> INITIAL_CHECK_DELAY, elem |-> domContainer, n |-> 0])
       /\ lastContainer' = domContainer
       /\ pollingInterval' = POLL_INTERVAL
       /\ leakedPolls' =
            IF pollingInterval # -1
            THEN AddCopy(leakedPolls, [left |-> pollingInterval, n |-> 0])
            ELSE leakedPolls

\* observeSubtitles
ObserveSubtitles(retryLeft) ==
  IF domContainer = 0
  THEN /\ retryTimer' = retryInterval(platform)
       /\ UNCHANGED << observer, leakedObservers, initialChecks, lastContainer,
                       pollingInterval, leakedPolls, settingsSync >>
  ELSE /\ retryTimer' = retryLeft
       /\ observer' = domContainer
       /\ leakedObservers' =
            IF observer # 0
            THEN AddCopy(leakedObservers, [elem |-> observer, n |-> 0])
            ELSE leakedObservers
       /\ initialChecks' =
            AddCopy(initialChecks,
                    [left |-> INITIAL_CHECK_DELAY, elem |-> domContainer, n |-> 0])
       /\ lastContainer' = domContainer
       /\ pollingInterval' = POLL_INTERVAL
       /\ leakedPolls' =
            IF pollingInterval # -1
            THEN AddCopy(leakedPolls, [left |-> pollingInterval, n |-> 0])
            ELSE leakedPolls

HistEffect(kind) ==
  IF phase = "stopped" THEN [hist EXCEPT !.afterStop = @ \cup {kind}] ELSE hist

(***************************************************************************)
(* SubtitleStorageManager: session operations as functions of the stored   *)
(* collections.  Undefined stands for a field that is not set.             *)
(***************************************************************************)
Undefined == "undefined"
\* endTime of a session that has not ended (the field is absent)
NotEnded == -1

\* startSession: a new session at the front of the collection
startSessionResult(sessions, id, plat, url, title, time) ==
  << [ id |-> id, platform |-> plat, url |-> url, movieTitle |-> title,
       startTime |-> time, endTime |-> NotEnded, subtitleCount |-> 0 ] >>
  \o sessions

\* Array.findIndex on the session ids; 0 stands for the -1 of "not found"
findIndex(sessions, id) ==
  IF \E i \in 1..Len(sessions) : sessions[i].id = id
  THEN CHOOSE i \in 1..Len(sessions) :
         /\ sessions[i].id = id
         /\ \A j \in 1..(i - 1) : sessions[j].id # id
  ELSE 0

\* subtitles.filter(s => s.sessionId === sessionId).length
sessionSubtitleCount(subtitles, id) ==
  Cardinality({ i \in 1..Len(subtitles) : subtitles[i].sessionId = id })

\* A variant of endSession that counts every stored entry.
endSessionResult_CountsAll(sessions, subtitles, id, time) ==
  LET sessionIndex == findIndex(sessions, id)
  IN IF sessionIndex # 0
     THEN [ wrote |-> TRUE,
            sessions |-> [sessions EXCEPT
                            ![sessionIndex].endTime = time,
                            ![sessionIndex].subtitleCount = Len(subtitles)] ]
     ELSE [ wrote |-> FALSE, sessions |-> sessions ]

\* endSession: the sessions collection afterwards, and whether it was written
endSessionResult(sessions, subtitles, id, time) ==
  LET sessionIndex == findIndex(sessions, id)
  IN IF sessionIndex # 0
     THEN [ wrote |-> TRUE,
            sessions |-> [sessions EXCEPT
                            ![sessionIndex].endTime = time,
                            ![sessionIndex].subtitleCount =
                               sessionSubtitleCount(subtitles, id)] ]
     ELSE [ wrote |-> FALSE, sessions |-> sessions ]

\* A variant of updateSessionTitle without the test for an empty title.
updateSessionTitleResult_WritesEmpty(sessions, id, movieTitle) ==
  LET sessionIndex == findIndex(sessions, id)
  IN IF sessionIndex # 0 /\ movieTitle # sessions[sessionIndex].movieTitle
     THEN [ wrote |-> TRUE,
            sessions |-> [sessions EXCEPT ![sessionIndex].movieTitle = movieTitle] ]
     ELSE [ wrote |-> FALSE, sessions |-> sessions ]

\* updateSessionTitle: the sessions collection afterwards, and whether it was
\* written.  The empty string is the only falsy title.
updateSessionTitleResult(sessions, id, movieTitle) ==
  LET sessionIndex == findIndex(sessions, id)
  IN IF /\ sessionIndex # 0
        /\ movieTitle # ""
        /\ movieTitle # sessions[sessionIndex].movieTitle
     THEN [ wrote |-> TRUE,
            sessions |-> [sessions EXCEPT ![sessionIndex].movieTitle = movieTitle] ]
     ELSE [ wrote |-> FALSE, sessions |-> sessions ]

(***************************************************************************)
(* The capture pipeline: TellMeMoreApp with its observer on one page.      *)
(***************************************************************************)
EmptyStoreInit ==
  /\ subtitlesKey = << >>
  /\ sessionsKey = << >>
  /\ nextId = 1

(***************************************************************************)
(* NetflixSubtitleObserver: content information.  A content id is a number *)
(* (0 = none: no /watch/<id> in the URL, no id from the player); a title   *)
(* is a string ("" = none, which the code tests the same way as null).     *)
(***************************************************************************)
MovieIds == {1, 2}

NoInfo == [ isNull |-> TRUE, title |-> "", contentType |-> "other", movieId |-> 0 ]
Info(title, contentType, movieId) ==
  [ isNull |-> FALSE, title |-> title, contentType |-> contentType,
    movieId |-> movieId ]

\* What the player objects of the page answer: no player (or no session, or
\* no instance), or an instance with an id, a title and episode data, each
\* of which may be missing.
NoPlayer == [ present |-> FALSE, movieId |-> 0, title |-> "", episode |-> FALSE ]
Player(movieId, title, episode) ==
  [ present |-> TRUE, movieId |-> movieId, title |-> title, episode |-> episode ]
PlayerStates ==
  { NoPlayer, Player(0, "", FALSE), Player(0, "Heist", FALSE),
    Player(1, "Heist", TRUE) }

\* What getContentInfoFromDOM finds: nothing, or a title with the type the
\* heuristics give it.
DomInfos == { NoInfo, Info("Cousins", "series", 0) }

\* String(id)
idTitle(id) == ToString(id)

\* getContentInfoFromPlayer
getContentInfoFromPlayer(url, player, dom) ==
  IF ~ player.present THEN NoInfo
  ELSE LET movieId == IF player.movieId = 0 THEN url ELSE player.movieId
           fromDom == player.title = "" /\ ~ dom.isNull
           title == IF fromDom THEN dom.title ELSE player.title
           ofPlayer == IF player.episode THEN "series" ELSE "movie"
           contentType == IF fromDom /\ dom.contentType # "other"
                          THEN dom.contentType ELSE ofPlayer
       IN IF title = "" /\ movieId = 0 THEN NoInfo
          ELSE Info(IF title = "" THEN idTitle(movieId) ELSE title,
                    contentType, movieId)

hasTitle(info) == ~ info.isNull /\ info.title # ""

\* The fields of the observer before any call, on a page without a content
\* id; resolved and held are history.
ContentInit ==
  [ url |-> 0,                       \* id in window.location.href
    player |-> NoPlayer,             \* what the player objects answer
    dom |-> NoInfo,                  \* what getContentInfoFromDOM finds
    cachedContentInfo |-> NoInfo,
    playerCheckRecent |-> FALSE,     \* Date.now() - lastPlayerCheck < 2 * PLAYER_CHECK_INTERVAL
    movieIdCache |-> [ m \in MovieIds |-> NoInfo ],
    currentMovieId |-> 0,
    lastKnownGoodTitle |-> "",
    lastKnownContentType |-> "movie",
    resolved |-> {},                 \* <<id, title>> of every player or DOM resolution
    held |-> NoInfo,                 \* first player or DOM result of getContentInfo
                                     \* for the URL's id since the URL last changed
    latest |-> NoInfo ]              \* latest resolution for the URL's id since then

\* a resolution by the player or the DOM, remembered under its content id
Resolve(c, info) ==
  [ c EXCEPT !.resolved = @ \cup { << info.movieId, info.title >> },
             !.latest = IF c.url # 0 /\ info.movieId = c.url THEN info ELSE @ ]

\* movieIdCache.set
cacheSet(c, id, info) == [ c EXCEPT !.movieIdCache[id] = info ]

\* checkForMovieIdChange
checkForMovieIdChange(c) ==
  IF c.url # 0 /\ c.url # c.currentMovieId
  THEN [ c EXCEPT !.currentMovieId = c.url, !.cachedContentInfo = NoInfo ]
  ELSE c

\* A variant of cacheCurrentContentInfo that refreshes the fallback title
\* and leaves the cache entry alone.
cacheCurrentContentInfo_KeepsCache(c) ==
  LET playerContentInfo == getContentInfoFromPlayer(c.url, c.player, c.dom)
      movieId == IF c.url # 0 THEN c.url ELSE playerContentInfo.movieId
      info == IF hasTitle(playerContentInfo)
              THEN [ playerContentInfo EXCEPT !.movieId = movieId ]
              ELSE [ c.dom EXCEPT !.movieId = c.url ]
  IN IF hasTitle(info) /\ info.movieId # 0
     THEN Resolve([ c EXCEPT !.currentMovieId = info.movieId,
                             !.lastKnownGoodTitle = info.title,
                             !.lastKnownContentType = info.contentType ],
                  info)
     ELSE c

\* cacheCurrentContentInfo
cacheCurrentContentInfo(c) ==
  LET dom == c.dom
      playerContentInfo == getContentInfoFromPlayer(c.url, c.player, dom)
  IN IF hasTitle(playerContentInfo)
     THEN LET movieId == IF c.url # 0 THEN c.url ELSE playerContentInfo.movieId
              info == [ playerContentInfo EXCEPT !.movieId = movieId ]
          IN IF movieId # 0
             THEN Resolve([ cacheSet(c, movieId, info) EXCEPT
                              !.currentMovieId = movieId,
                              !.lastKnownGoodTitle = info.title,
                              !.lastKnownContentType = info.contentType ],
                          info)
             ELSE c
     ELSE IF hasTitle(dom) /\ c.url # 0
          THEN LET info == [ dom EXCEPT !.movieId = c.url ]
               IN Resolve([ cacheSet(c, c.url, info) EXCEPT
                              !.currentMovieId = c.url,
                              !.lastKnownGoodTitle = info.title,
                              !.lastKnownContentType = info.contentType ],
                          info)
          ELSE c

Returns(c, result, via) == [ content |-> c, result |-> result, via |-> via ]

\* A variant of getContentInfo that asks the player before it looks into
\* the cache.
getContentInfo_PlayerFirst(c) ==
  LET url == c.url
      playerContentInfo == getContentInfoFromPlayer(url, c.player, c.dom)
  IN IF hasTitle(playerContentInfo)
     THEN Returns([ Resolve(cacheSet(c, playerContentInfo.movieId,
                                     playerContentInfo), playerContentInfo)
                      EXCEPT !.currentMovieId = playerContentInfo.movieId,
                             !.lastKnownGoodTitle = playerContentInfo.title,
                             !.lastKnownContentType = playerContentInfo.contentType,
                             !.cachedContentInfo = playerContentInfo,
                             !.playerCheckRecent = TRUE ],
                  playerContentInfo, "player")
     ELSE IF url # 0 /\ ~ c.movieIdCache[url].isNull
     THEN Returns(c, c.movieIdCache[url], "cache")
     ELSE Returns(c, NoInfo, "none")

\* getContentInfo: the fields after the call, what it returns and the
\* method that returned it.  Nothing inside the try block throws (the two
\* lookups catch their own errors), so the catch block is never entered.
getContentInfo(c) ==
  LET url == c.url
      dom == c.dom
      cachedInfo == c.movieIdCache[url]
      \* after "update current movie ID if it changed"
      c1 == IF url # 0 /\ url # c.currentMovieId
            THEN [ c EXCEPT !.currentMovieId = url, !.cachedContentInfo = NoInfo ]
            ELSE c
      found == getContentInfoFromPlayer(url, c.player, dom)
      playerContentInfo ==
        IF url # 0 /\ found.movieId = 0 THEN [ found EXCEPT !.movieId = url ]
        ELSE found
      domContentInfo == IF url # 0 THEN [ dom EXCEPT !.movieId = url ] ELSE dom
      fallbackInfo == Info(c1.lastKnownGoodTitle, c1.lastKnownContentType, url)
  IN IF url # 0 /\ ~ c.movieIdCache[url].isNull
     THEN Returns([ c EXCEPT !.currentMovieId = url,
                             !.lastKnownGoodTitle = cachedInfo.title,
                             !.lastKnownContentType = cachedInfo.contentType ],
                  cachedInfo, "cache")
     ELSE IF hasTitle(found)
     THEN LET c2 == IF playerContentInfo.movieId # 0
                    THEN [ cacheSet(c1, playerContentInfo.movieId,
                                    playerContentInfo)
                             EXCEPT !.currentMovieId = playerContentInfo.movieId ]
                    ELSE c1
          IN Returns([ Resolve(c2, playerContentInfo) EXCEPT
                         !.lastKnownGoodTitle = playerContentInfo.title,
                         !.lastKnownContentType = playerContentInfo.contentType,
                         !.cachedContentInfo = playerContentInfo,
                         !.playerCheckRecent = TRUE ],
                     playerContentInfo, "player")
     ELSE IF hasTitle(dom)
     THEN LET c2 == IF url # 0
                    THEN [ cacheSet(c1, url, domContentInfo)
                             EXCEPT !.currentMovieId = url ]
                    ELSE c1
          IN Returns([ Resolve(c2, domContentInfo) EXCEPT
                         !.lastKnownGoodTitle = domContentInfo.title,
                         !.lastKnownContentType = domContentInfo.contentType,
                         !.cachedContentInfo = domContentInfo ],
                     domContentInfo, "dom")
     ELSE IF hasTitle(c1.cachedContentInfo) /\ c1.playerCheckRecent
     THEN Returns(c1, c1.cachedContentInfo, "recent")
     ELSE IF c1.lastKnownGoodTitle # "" /\ url # 0
     THEN Returns(cacheSet(c1, url, fallbackInfo), fallbackInfo, "fallback")
     ELSE Returns(c1, NoInfo, "none")

\* TellMeMoreApp before initializeComponents: the component fields are null
\* and nothing is rendered into the page
NoComponents ==
  [ overlayInterface |-> FALSE, aiChatInterface |-> FALSE,
    subtitleObserver |-> FALSE, rendered |-> {} ]

AIIdle == [ pc |-> "unused" ]
NoSync == [ pc |-> "unused" ]
NoOp == [ name |-> "none" ]

Init ==
  /\ domContainer \in {0, 1}
  /\ domText = [e \in Elements |-> EmptyText]
  /\ domBudget = MaxDomEvents
  /\ platform \in {"netflix", "disney"}
  /\ phase = "idle"
  /\ settings = [subtitleMode |-> "On"]
  /\ lastSubtitle = EmptyText
  /\ sinceProcess = ProcessClockCap
  /\ observer = 0
  /\ leakedObservers = {}
  /\ lastContainer = 0
  /\ processingTimeout = FALSE
  /\ debounceTimer = NoTimer
  /\ pollingInterval = -1
  /\ leakedPolls = {}
  /\ retryTimer = -1
  /\ initialChecks = {}
  /\ checkInterval = -1
  /\ capturedSubtitles = << >>
  /\ storageCallback = FALSE
  /\ currentSessionId = 0
  /\ components = NoComponents
  /\ lastSavedSubtitle = EmptyText
  /\ sinceSaved = MIN_SAVE_INTERVAL
  /\ saves = << >>
  /\ settingsSync = NoSync
  /\ EmptyStoreInit
  /\ ai = AIIdle /\ content = ContentInit
  /\ hist = HistInit
  /\ lastOp = NoOp
  /\ now = 1

\* TellMeMoreApp.initializeComponents after its platform test: startSession
\* (which may fail), the overlay and the chat panel, the observer of the
\* factory with its storage callback, start().
BuildComponents(sessionOk) ==
  /\ phase' = "running"
  /\ IF platform # "unknown" /\ sessionOk
     THEN /\ currentSessionId' = nextId
          /\ nextId' = nextId + 1
          /\ sessionsKey' = startSessionResult(sessionsKey, nextId, platform,
                                               "url", Undefined, now)
     ELSE UNCHANGED << currentSessionId, nextId, sessionsKey, settingsSync >>
  /\ components' = [ overlayInterface |-> TRUE, aiChatInterface |-> TRUE,
                     subtitleObserver |-> TRUE, rendered |-> {"overlay", "chat"} ]
  /\ storageCallback' = TRUE
  /\ ObserveSubtitles(-1)
  /\ checkInterval' = IF platform = "netflix" THEN CHECK_INTERVAL ELSE -1
  /\ UNCHANGED << pageVars, platform, settings, lastSubtitle, sinceProcess,
                  processingTimeout, debounceTimer, capturedSubtitles,
                  lastSavedSubtitle, sinceSaved, saves, subtitlesKey, ai, content, hist,
                  lastOp, now, settingsSync >>

\* A variant of initializeComponents without the test for a supported platform.
InitializeComponents_NoPlatformTest(sessionOk) ==
  /\ phase = "idle"
  /\ BuildComponents(sessionOk)

\* TellMeMoreApp.initializeComponents: nothing is built on a host that no
\* PlatformConfig matches (the phase "disabled")
InitializeComponents(sessionOk) ==
  /\ phase = "idle"
  /\ IF platform = "unknown"
     THEN /\ phase' = "disabled"
          /\ UNCHANGED << pageVars, platform, settings, lastSubtitle, sinceProcess,
                          observer, leakedObservers, lastContainer,
                          processingTimeout, debounceTimer, pollingInterval,
                          leakedPolls, retryTimer, initialChecks, checkInterval,
                          capturedSubtitles, storageCallback, appVars, storeVars,
                          ai, content, hist, lastOp, now >>
     ELSE BuildComponents(sessionOk)

\* The MutationObserver callbacks run for a mutation inside element e.
\* A variant of the callback that leaves a pending timeout as it is.
restartDebounce_KeepsPending(pending, e) ==
  IF pending = NoTimer THEN [left |-> DEBOUNCE_DELAY, elem |-> e] ELSE pending

\* the MutationObserver callback on a relevant mutation: the pending timeout
\* is cleared and a new one of DEBOUNCE_DELAY is set
restartDebounce(pending, e) == [left |-> DEBOUNCE_DELAY, elem |-> e]

\* hist after a MutationObserver callback
HistWatcher(relevant) ==
  LET h == IF relevant THEN HistEffect("debounce") ELSE hist
  IN [ h EXCEPT
         !.bursts = IF relevant /\ debounceTimer = NoTimer
                    THEN Min(@ + 1, MaxCount) ELSE @,
         !.cancelled = IF ~ relevant /\ debounceTimer # NoTimer
                       THEN Min(@ + 1, MaxCount) ELSE @ ]

WatcherCallback(e, relevant) ==
  IF e \in Watched
  THEN /\ debounceTimer' =
            IF relevant THEN restartDebounce(debounceTimer, e)
            ELSE IF processingTimeout THEN NoTimer ELSE debounceTimer
       /\ processingTimeout' = (relevant \/ processingTimeout)
       /\ hist' = HistWatcher(relevant)
  ELSE UNCHANGED << debounceTimer, processingTimeout, hist, settingsSync >>

\* The page replaces the caption text of the container in the page.
DomTextChange(t) ==
  /\ domBudget > 0
  /\ domContainer # 0
  /\ t # domText[domContainer]
  /\ domText' = [domText EXCEPT ![domContainer] = t]
  /\ domBudget' = domBudget - 1
  /\ WatcherCallback(domContainer, TRUE)
  /\ UNCHANGED << domContainer, platform, phase, settings, lastSubtitle,
                  sinceProcess, observer, leakedObservers, lastContainer,
                  pollingInterval, leakedPolls, retryTimer, initialChecks,
                  checkInterval, capturedSubtitles, storageCallback, appVars,
                  storeVars, ai, content, lastOp, now >>

\* The page replaces the text of the caption container and the mutation
\* event for it is missed: no MutationObserver callback runs.
DomTextChangeMissed(t) ==
  /\ domBudget > 0
  /\ domContainer # 0
  /\ t # domText[domContainer]
  /\ domText' = [domText EXCEPT ![domContainer] = t]
  /\ domBudget' = domBudget - 1
  /\ hist' = [hist EXCEPT !.missed = TRUE]
  /\ UNCHANGED << domContainer, platform, phase, settings, lastSubtitle,
                  sinceProcess, observer, leakedObservers, lastContainer,
                  processingTimeout, debounceTimer, pollingInterval, leakedPolls,
                  retryTimer, initialChecks, checkInterval, capturedSubtitles,
                  storageCallback, appVars, storeVars, ai, content, lastOp, now >>

\* A variant of the poll callback that reads nothing.
PollFire_SkipsRead ==
  /\ pollingInterval = 0
  /\ pollingInterval' = POLL_INTERVAL
  /\ UNCHANGED << pageVars, platform, phase, settings, lastSubtitle, sinceProcess,
                  observer, leakedObservers, lastContainer, processingTimeout,
                  debounceTimer, leakedPolls, retryTimer, initialChecks,
                  checkInterval, capturedSubtitles, storageCallback, appVars,
                  storeVars, ai, content, hist, lastOp, now >>

\* The page changes the aria-live attribute of the container: observed
\* (attributeFilter), but not one of the changes the callback acts on.
DomAttributeChange ==
  /\ domBudget > 0
  /\ domContainer # 0
  /\ domBudget' = domBudget - 1
  /\ WatcherCallback(domContainer, FALSE)
  /\ UNCHANGED << domContainer, domText, platform, phase, settings, lastSubtitle,
                  sinceProcess, observer, leakedObservers, lastContainer,
                  pollingInterval, leakedPolls, retryTimer, initialChecks,
                  checkInterval, capturedSubtitles, storageCallback, appVars,
                  storeVars, ai, content, lastOp, now >>

\* The page inserts a caption container.
DomAddContainer(e) ==
  /\ domBudget > 0
  /\ domContainer = 0
  /\ domContainer' = e
  /\ domBudget' = domBudget - 1
  /\ UNCHANGED << domText, observerVars, appVars, storeVars, ai, content, hist, lastOp, now >>

\* The page removes the caption container.
DomRemoveContainer ==
  /\ domBudget > 0
  /\ domContainer # 0
  /\ domContainer' = 0
  /\ domBudget' = domBudget - 1
  /\ UNCHANGED << domText, observerVars, appVars, storeVars, ai, content, hist, lastOp, now >>

\* updateSettings, reached from the overlay menu or the options page
UpdateSettings(mode) ==
  /\ domBudget > 0
  /\ phase = "running"
  /\ mode # settings.subtitleMode
  /\ settings' = [settings EXCEPT !.subtitleMode = mode]
  /\ domBudget' = domBudget - 1
  /\ UNCHANGED << domContainer, domText, platform, phase, lastSubtitle,
                  sinceProcess, observer, leakedObservers, lastContainer,
                  processingTimeout, debounceTimer, pollingInterval, leakedPolls,
                  retryTimer, initialChecks, checkInterval, capturedSubtitles,
                  storageCallback, appVars, storeVars, ai, content, hist, lastOp, now >>

\* The retry timeout of observeSubtitles is due.
RetryFire ==
  /\ retryTimer = 0
  /\ ObserveSubtitles(-1)
  /\ hist' = IF domContainer # 0 THEN HistEffect("attach") ELSE HistEffect("retry")
  /\ UNCHANGED << pageVars, platform, phase, settings, lastSubtitle, sinceProcess,
                  processingTimeout, debounceTimer, checkInterval,
                  capturedSubtitles, storageCallback, appVars, storeVars, ai, content,
                  lastOp, now >>

\* An initial-check timeout of observeSubtitles is due.
InitialCheckFire ==
  \E t \in initialChecks :
    /\ t.left = 0
    /\ initialChecks' = initialChecks \ {t}
    /\ ProcessSubtitleChanges(t.elem)
    /\ UNCHANGED << pageVars, platform, phase, settings, observer,
                    leakedObservers, lastContainer, processingTimeout,
                    debounceTimer, pollingInterval, leakedPolls, retryTimer,
                    checkInterval, storageCallback, currentSessionId, components,
                    lastSavedSubtitle, sinceSaved, storeVars, ai, content, lastOp, now, settingsSync >>

\* The debounce timeout set by the MutationObserver callback is due.
DebounceFire ==
  /\ debounceTimer # NoTimer
  /\ debounceTimer.left = 0
  /\ ProcessSubtitleChangesBy(debounceTimer.elem, TRUE)
  /\ debounceTimer' = NoTimer
  /\ processingTimeout' = FALSE
  /\ UNCHANGED << pageVars, platform, phase, settings, observer,
                  leakedObservers, lastContainer, pollingInterval, leakedPolls,
                  retryTimer, initialChecks, checkInterval, storageCallback,
                  currentSessionId, components, lastSavedSubtitle, sinceSaved, storeVars, ai, content,
                  lastOp, now, settingsSync >>

\* The interval in this.pollingInterval is due.
PollFire ==
  /\ pollingInterval = 0
  /\ pollingInterval' = POLL_INTERVAL
  /\ ProcessSubtitleChanges(lastContainer)
  /\ UNCHANGED << pageVars, platform, phase, settings, observer,
                  leakedObservers, lastContainer, processingTimeout,
                  debounceTimer, leakedPolls, retryTimer, initialChecks,
                  checkInterval, storageCallback, currentSessionId, components,
                  lastSavedSubtitle, sinceSaved, storeVars, ai, content, lastOp, now, settingsSync >>

\* An interval started by an earlier startPolling call is due.
LeakedPollFire ==
  \E t \in leakedPolls :
    /\ t.left = 0
    /\ leakedPolls' = (leakedPolls \ {t}) \cup { [t EXCEPT !.left = POLL_INTERVAL] }
    /\ ProcessSubtitleChanges(lastContainer)
    /\ UNCHANGED << pageVars, platform, phase, settings, observer,
                    leakedObservers, lastContainer, processingTimeout,
                    debounceTimer, pollingInterval, retryTimer, initialChecks,
                    checkInterval, storageCallback, currentSessionId, components,
                    lastSavedSubtitle, sinceSaved, storeVars, ai, content, lastOp, now, settingsSync >>

\* A variant of the periodic check that forgets the last caption when it
\* disconnects the watcher.
PeriodicCheckFire_ForgetsOnLoss ==
  /\ checkInterval = 0
  /\ checkInterval' = CHECK_INTERVAL
  /\ content' = cacheCurrentContentInfo(checkForMovieIdChange(content))
  /\ IF domContainer = 0
     THEN /\ observer' = 0
          /\ hist' = IF observer # 0 THEN HistLost(hist) ELSE hist
          /\ UNCHANGED << leakedObservers, lastContainer, pollingInterval,
                          leakedPolls, retryTimer, initialChecks, settingsSync >>
     ELSE IF observer = 0
          THEN /\ ObserveSubtitles(retryTimer)
               /\ hist' = HistResumed(HistEffect("attach"))
          ELSE UNCHANGED << observer, leakedObservers, lastContainer,
                            pollingInterval, leakedPolls, retryTimer,
                            initialChecks, hist, settingsSync >>
  /\ lastSubtitle' = IF domContainer = 0 /\ observer # 0 THEN EmptyText
                   ELSE lastSubtitle
  /\ UNCHANGED << pageVars, platform, phase, settings, sinceProcess,
                  processingTimeout, debounceTimer, capturedSubtitles,
                  storageCallback, appVars, storeVars, ai, lastOp, now >>

\* NetflixSubtitleObserver.startPeriodicCheck: the interval callback
PeriodicCheckFire ==
  /\ checkInterval = 0
  /\ checkInterval' = CHECK_INTERVAL
  /\ content' = cacheCurrentContentInfo(checkForMovieIdChange(content))
  /\ IF domContainer = 0
     THEN /\ observer' = 0
          /\ hist' = IF observer # 0 THEN HistLost(hist) ELSE hist
          /\ UNCHANGED << leakedObservers, lastContainer, pollingInterval,
                          leakedPolls, retryTimer, initialChecks, settingsSync >>
     ELSE IF observer = 0
          THEN /\ ObserveSubtitles(retryTimer)
               /\ hist' = HistResumed(HistEffect("attach"))
          ELSE UNCHANGED << observer, leakedObservers, lastContainer,
                            pollingInterval, leakedPolls, retryTimer,
                            initialChecks, hist, settingsSync >>
  /\ UNCHANGED << pageVars, platform, phase, settings, lastSubtitle, sinceProcess,
                  processingTimeout, debounceTimer, capturedSubtitles,
                  storageCallback, appVars, storeVars, ai, lastOp, now >>

\* the fields of the observer that stop() reads or writes, with the buffer
\* and lastSubtitle
ObserverState ==
  [ observer |-> observer, processingTimeout |-> processingTimeout,
    debounceTimer |-> debounceTimer, pollingInterval |-> pollingInterval,
    lastContainer |-> lastContainer, checkInterval |-> checkInterval,
    lastSubtitle |-> lastSubtitle, capturedSubtitles |-> capturedSubtitles ]

\* A variant of stop() that also empties the buffer, as clearSubtitles does.
stop_ClearsSubtitles(o) ==
  [ o EXCEPT !.observer = 0,
             !.debounceTimer = IF o.processingTimeout THEN NoTimer ELSE @,
             !.processingTimeout = FALSE,
             !.pollingInterval = -1,
             !.lastContainer = 0,
             !.checkInterval = -1,
             !.lastSubtitle = EmptyText,
             !.capturedSubtitles = << >> ]

\* stop() (NetflixSubtitleObserver.stop for Netflix) on the fields o: each
\* handle is released if it is set, and the container reference is dropped
stop(o) ==
  [ o EXCEPT !.observer = 0,
             !.debounceTimer = IF o.processingTimeout THEN NoTimer ELSE @,
             !.processingTimeout = FALSE,
             !.pollingInterval = -1,
             !.lastContainer = 0,
             !.checkInterval = -1 ]

\* the fields after a stop() call
StopFields ==
  LET o == stop(ObserverState)
  IN /\ observer' = o.observer
     /\ processingTimeout' = o.processingTimeout
     /\ debounceTimer' = o.debounceTimer
     /\ pollingInterval' = o.pollingInterval
     /\ lastContainer' = o.lastContainer
     /\ checkInterval' = o.checkInterval
     /\ lastSubtitle' = o.lastSubtitle
     /\ capturedSubtitles' = o.capturedSubtitles
     /\ hist' = [hist EXCEPT !.stops = Min(@ + 1, MaxStops)]

\* stop() of the observer, called by the app when the page unloads
Stop ==
  /\ phase = "running"
  /\ phase' = "stopped"
  /\ StopFields
  /\ UNCHANGED << pageVars, platform, settings, sinceProcess,
                  leakedObservers, leakedPolls, retryTimer, initialChecks,
                  storageCallback, appVars, storeVars, ai, content,
                  lastOp, now >>

\* stop() called on an observer that is not running: before start(), or again
\* after stop() (cleanup and destroy both call it when the page unloads)
StopNotRunning ==
  /\ phase \in {"idle", "stopped"}
  /\ hist.stops < MaxStops
  /\ StopFields
  /\ UNCHANGED << pageVars, platform, phase, settings, sinceProcess,
                  leakedObservers, leakedPolls, retryTimer, initialChecks,
                  storageCallback, appVars, storeVars, ai, content,
                  lastOp, now >>

\* chrome.storage.local serves the requests of a page in the order they were
\* issued: saves is the queue of the pending requests, each the pending get
\* or set of one saveSubtitle call.
\* saveSubtitle: the getAllSubtitles callback of a suspended save arrives, and
\* the call issues its write.
StorageGetDone ==
  /\ saves # << >>
  /\ Head(saves).stage = "get"
  /\ saves' = Append(Tail(saves),
                     [Head(saves) EXCEPT !.stage = "set", !.subs = subtitlesKey])
  /\ UNCHANGED << pageVars, observerVars, currentSessionId, components, lastSavedSubtitle,
                  sinceSaved, storeVars, ai, content, hist, lastOp, now, settingsSync >>

\* saveSubtitle: the write of a suspended save lands and the call returns
\* into saveSubtitleToStorage, which updates its tracking fields.
StorageSetDone ==
  /\ saves # << >>
  /\ Head(saves).stage = "set"
  /\ subtitlesKey' =
       saveSubtitleResult(Head(saves).subs,
                          [ id |-> nextId, text |-> trim(Head(saves).text),
                            sessionId |-> Head(saves).sessionId,
                            timestamp |-> Head(saves).timestamp ])
  /\ nextId' = nextId + 1
  /\ lastSavedSubtitle' = normalize(Head(saves).text)
  /\ sinceSaved' = Head(saves).age
  /\ saves' = Tail(saves)
  /\ UNCHANGED << pageVars, observerVars, currentSessionId, components, sessionsKey, ai, content,
                  hist, lastOp, now, settingsSync >>

NoTimerDue ==
  /\ retryTimer # 0
  /\ debounceTimer.left # 0
  /\ pollingInterval # 0
  /\ checkInterval # 0
  /\ \A t \in initialChecks \cup leakedPolls : t.left # 0

\* TickMs of time pass.
Tick ==
  /\ NoTimerDue
  /\ \A i \in 1..Len(saves) : saves[i].age < MaxSaveTicks * TickMs
  /\ retryTimer' = IF retryTimer > 0 THEN retryTimer - TickMs ELSE retryTimer
  /\ debounceTimer' =
       IF debounceTimer = NoTimer THEN NoTimer
       ELSE [debounceTimer EXCEPT !.left = @ - TickMs]
  /\ pollingInterval' =
       IF pollingInterval > 0 THEN pollingInterval - TickMs ELSE pollingInterval
  /\ checkInterval' =
       IF checkInterval > 0 THEN checkInterval - TickMs ELSE checkInterval
  /\ initialChecks' = Elapse(initialChecks)
  /\ leakedPolls' = Elapse(leakedPolls)
  /\ sinceProcess' = Min(sinceProcess + TickMs, ProcessClockCap)
  /\ sinceSaved' = Min(sinceSaved + TickMs, MIN_SAVE_INTERVAL)
  /\ saves' = [i \in 1..Len(saves) |-> [saves[i] EXCEPT !.age = @ + TickMs]]
  /\ hist' = HistTick
  /\ UNCHANGED << pageVars, platform, phase, settings, lastSubtitle, observer,
                  leakedObservers, lastContainer, processingTimeout,
                  capturedSubtitles, storageCallback, currentSessionId, components,
                  lastSavedSubtitle, storeVars, ai, content, lastOp, now, settingsSync >>

Next ==
  \/ \E ok \in BOOLEAN : InitializeComponents(ok)
  \/ \E t \in ScreenTexts : DomTextChange(t)
  \/ DomAttributeChange
  \/ \E e \in Elements : DomAddContainer(e)
  \/ DomRemoveContainer
  \/ \E m \in Modes : UpdateSettings(m)
  \/ RetryFire
  \/ InitialCheckFire
  \/ DebounceFire
  \/ PollFire
  \/ LeakedPollFire
  \/ PeriodicCheckFire
  \/ Stop
  \/ StorageGetDone
  \/ StorageSetDone
  \/ Tick

Spec == Init /\ [][Next]_vars

\* MutationObservers attached to an element, and poll intervals running
AttachedWatchers == (IF observer # 0 THEN 1 ELSE 0) + Cardinality(leakedObservers)
RunningPolls == (IF pollingInterval # -1 THEN 1 ELSE 0) + Cardinality(leakedPolls)

\* C34: at any time the observer has at most one attached mutation watcher
\* and at most one running poll timer.
C34_OneWatcherOnePoll ==
  /\ AttachedWatchers <= 1
  /\ RunningPolls <= 1

(***************************************************************************)
(* The capture pipeline once the container is in the page: the part of     *)
(* Next that runs between start() and stop() on a platform without the     *)
(* Netflix periodic check.                                                 *)
(***************************************************************************)
InitCapture ==
  /\ Init
  /\ platform = "disney"
  /\ domContainer = 1

NextCapture ==
  \/ \E ok \in BOOLEAN : InitializeComponents(ok)
  \/ \E t \in ScreenTexts : DomTextChange(t)
  \/ DomAttributeChange
  \/ \E m \in Modes : UpdateSettings(m)
  \/ InitialCheckFire
  \/ DebounceFire
  \/ PollFire
  \/ StorageGetDone
  \/ StorageSetDone
  \/ Tick

SpecCapture == InitCapture /\ [][NextCapture]_vars

C2_AcceptedMinIntervalApart ==
  hist.appends >= 2 => hist.lastGap >= MIN_PROCESS_INTERVAL

\* Two captions were accepted exactly MIN_PROCESS_INTERVAL apart.
C2_Witness ==
  /\ hist.appends >= 2
  /\ hist.lastGap = MIN_PROCESS_INTERVAL
  /\ Len(capturedSubtitles) = 2

\* C3: a non-empty caption that differs (normalized) from the last accepted
\* one and is processed at least 200 ms after the last acceptance is accepted
\* by that call and by no later call of its run; after 'Hello.', 'Hello.'
\* within 100 ms and 'Hello there.' 300 ms later the buffer is
\* <<'Hello.', 'Hello there.'>> and two entries were handed to storage (and
\* stored, when a session is active and the two writes did not overlap).
C3_NewCaptionAcceptedOnce ==
  /\ ( /\ hist.last.mode # "Off"
       /\ trim(hist.last.text) # EmptyText
       /\ normalize(hist.last.text) # normalize(hist.last.prev)
       /\ hist.last.elapsed >= MIN_PROCESS_INTERVAL )
     => ( /\ hist.last.accepted
          /\ Len(capturedSubtitles) = Len(hist.last.before) + 1
          /\ capturedSubtitles = Append(hist.last.before, hist.last.text) )
  /\ hist.runEligible => hist.runAppends = 1
  /\ hist.scen = 3 =>
       /\ capturedSubtitles = << Hello, HelloThere >>
       /\ hist.calls = 2
       /\ currentSessionId # 0 => hist.saveStarts = 2
       /\ (currentSessionId # 0 /\ saves = << >> /\ ~ hist.overlap) =>
            /\ Len(subtitlesKey) = 2
            /\ subtitlesKey[1].text = HelloThere
            /\ subtitlesKey[2].text = Hello

\* The scenario has run to its end and both entries are stored.
C3_Witness ==
  /\ hist.scen = 3
  /\ hist.last.text = HelloThere
  /\ hist.last.accepted
  /\ Len(subtitlesKey) = 2

(***************************************************************************)
(* Properties of the observer life cycle (specification Spec).             *)
(***************************************************************************)
\* C6: once stop() has returned, no timer or watcher callback appends to the
\* caption buffer or invokes the storage callback ("append"), and none
\* attaches a watcher or starts a poll ("attach"): every timer that could do
\* so was cancelled by stop().
C6_NoEffectAfterStop ==
  hist.afterStop \cap {"append", "attach"} = {}

(***************************************************************************)
(* The caption buffer over a long playback: captions follow one another on *)
(* a page whose container stays, each read by a debounce or poll callback, *)
(* and clearSubtitles is called at any moment.  The app runs without a     *)
(* session (startSession failed), so the storage callback returns at once. *)
(***************************************************************************)
\* the k-th caption of the playback
Caption(k) == << "line", " ", ToString(k) >>

\* BaseSubtitleObserver.clearSubtitles
ClearSubtitles ==
  /\ phase = "running"
  /\ hist.clears < MaxClears
  /\ capturedSubtitles' = << >>
  /\ lastSubtitle' = EmptyText
  /\ hist' = [hist EXCEPT !.sinceClear = << >>, !.lastAccepted = EmptyText,
                          !.clears = @ + 1]
  /\ UNCHANGED << pageVars, platform, phase, settings, sinceProcess, observer,
                  leakedObservers, lastContainer, processingTimeout,
                  debounceTimer, pollingInterval, leakedPolls, retryTimer,
                  initialChecks, checkInterval, storageCallback, appVars,
                  storeVars, ai, content, lastOp, now >>

\* The page replaces the caption on screen, once it has been captured (or
\* re-captured after a clear), by the next one.
ShowCaption ==
  /\ domBudget > 0
  /\ domContainer # 0
  /\ lastSubtitle = trim(domText[domContainer])
  /\ domText' = [domText EXCEPT
                   ![domContainer] = Caption(MaxCaptions - domBudget + 1)]
  /\ domBudget' = domBudget - 1
  /\ UNCHANGED << domContainer, platform, phase, settings, observerVars, appVars,
                  storeVars, ai, content, hist, lastOp, now >>

\* MIN_PROCESS_INTERVAL or more goes by without a callback.
Wait ==
  /\ sinceProcess < ProcessClockCap
  /\ sinceProcess' = ProcessClockCap
  /\ sinceSaved' = Min(sinceSaved + ProcessClockCap, MIN_SAVE_INTERVAL)
  /\ hist' = [hist EXCEPT !.sinceAccept = ProcessClockCap,
                          !.sinceReading = ProcessClockCap]
  /\ UNCHANGED << pageVars, platform, phase, settings, lastSubtitle, observer,
                  leakedObservers, lastContainer, processingTimeout,
                  debounceTimer, pollingInterval, leakedPolls, retryTimer,
                  initialChecks, checkInterval, capturedSubtitles,
                  storageCallback, currentSessionId, components, lastSavedSubtitle, saves,
                  storeVars, ai, content, lastOp, now, settingsSync >>

\* A debounce or poll callback runs processSubtitleChanges on the container.
ReadCaption ==
  /\ phase = "running"
  /\ lastContainer # 0
  /\ ProcessSubtitleChanges(lastContainer)
  /\ UNCHANGED << pageVars, platform, phase, settings, observer,
                  leakedObservers, lastContainer, processingTimeout,
                  debounceTimer, pollingInterval, leakedPolls, retryTimer,
                  initialChecks, checkInterval, storageCallback,
                  currentSessionId, components, lastSavedSubtitle, sinceSaved, storeVars, ai, content,
                  lastOp, now, settingsSync >>

\* After initializeComponents without a session, the initial check done.
InitBuf ==
  /\ domContainer = 1
  /\ domText = [e \in Elements |-> EmptyText]
  /\ domBudget = MaxCaptions
  /\ platform = "disney"
  /\ phase = "running"
  /\ settings = [subtitleMode |-> "On"]
  /\ lastSubtitle = EmptyText
  /\ sinceProcess = ProcessClockCap
  /\ observer = 1
  /\ leakedObservers = {}
  /\ lastContainer = 1
  /\ processingTimeout = FALSE
  /\ debounceTimer = NoTimer
  /\ pollingInterval = POLL_INTERVAL
  /\ leakedPolls = {}
  /\ retryTimer = -1
  /\ initialChecks = {}
  /\ checkInterval = -1
  /\ capturedSubtitles = << >>
  /\ storageCallback = TRUE
  /\ currentSessionId = 0
  /\ components = NoComponents
  /\ lastSavedSubtitle = EmptyText
  /\ sinceSaved = MIN_SAVE_INTERVAL
  /\ saves = << >>
  /\ settingsSync = NoSync
  /\ EmptyStoreInit
  /\ ai = AIIdle /\ content = ContentInit
  /\ hist = HistInit
  /\ lastOp = NoOp
  /\ now = 1

\* An observer started by the app (storage callback set) or on its own (no
\* callback: the legacy write), the initial check done.
InitAccept ==
  /\ domContainer = 1
  /\ domText = [e \in Elements |-> EmptyText]
  /\ domBudget = MaxCaptions
  /\ platform = "disney"
  /\ phase = "running"
  /\ settings \in [subtitleMode : {"On", "On (hidden)"}]
  /\ lastSubtitle = EmptyText
  /\ sinceProcess = ProcessClockCap
  /\ observer = 1
  /\ leakedObservers = {}
  /\ lastContainer = 1
  /\ processingTimeout = FALSE
  /\ debounceTimer = NoTimer
  /\ pollingInterval = POLL_INTERVAL
  /\ leakedPolls = {}
  /\ retryTimer = -1
  /\ initialChecks = {}
  /\ checkInterval = -1
  /\ capturedSubtitles = << >>
  /\ storageCallback \in BOOLEAN
  /\ currentSessionId = 0
  /\ components = NoComponents
  /\ lastSavedSubtitle = EmptyText
  /\ sinceSaved = MIN_SAVE_INTERVAL
  /\ saves = << >>
  /\ settingsSync = NoSync
  /\ EmptyStoreInit
  /\ ai = AIIdle /\ content = ContentInit
  /\ hist = HistInit
  /\ lastOp = NoOp
  /\ now = 1

NextAccept ==
  \/ ShowCaption
  \/ Wait
  \/ ReadCaption

SpecAccept == InitAccept /\ [][NextAccept]_vars

\* C31: a processSubtitleChanges call that accepts a caption appends it to the
\* buffer once, makes one storage action (the storage callback when one is
\* set, the legacy write when none is) and dispatches one
\* 'crx-subtitle-captured' event, whose count is the length of the buffer
\* after the append and so at most MAX_CAPTURED; a call that accepts nothing
\* does none of these.
C31_OneAppendActionEvent ==
  IF hist.last.accepted
  THEN /\ capturedSubtitles = pushCaptured(hist.last.before, hist.last.text)
       /\ Len(hist.last.before) < MAX_CAPTURED =>
            capturedSubtitles = Append(hist.last.before, hist.last.text)
       /\ hist.last.callback + hist.last.legacy = 1
       /\ (hist.last.callback = 1) = storageCallback
       /\ hist.last.events = 1
       /\ hist.last.count = Len(capturedSubtitles)
       /\ hist.last.count <= MAX_CAPTURED
  ELSE /\ capturedSubtitles = hist.last.before
       /\ hist.last.callback + hist.last.legacy + hist.last.events = 0

\* a caption was accepted into the full buffer of an observer without a
\* storage callback: the legacy write was made and the event counts 50
C31_Witness ==
  /\ hist.last.accepted
  /\ ~ storageCallback
  /\ hist.last.legacy = 1
  /\ Len(hist.last.before) = MAX_CAPTURED
  /\ hist.last.count = MAX_CAPTURED

NextBuf ==
  \/ ShowCaption
  \/ Wait
  \/ ReadCaption
  \/ ClearSubtitles

SpecBuf == InitBuf /\ [][NextBuf]_vars

\* the last n elements of a sequence
LastN(q, n) == SubSeq(q, Len(q) - Min(n, Len(q)) + 1, Len(q))

\* C4: after any sequence of accepted captions and clearSubtitles calls the
\* buffer holds at most MAX_CAPTURED captions: exactly the last MAX_CAPTURED
\* (or all, if fewer) of those accepted since the last clear, in the order
\* accepted, the newest last.
C4_BufferKeepsLastFifty ==
  /\ Len(capturedSubtitles) <= MAX_CAPTURED
  /\ capturedSubtitles = LastN(hist.sinceClear, MAX_CAPTURED)
  /\ (hist.last.accepted /\ capturedSubtitles # << >>) =>
       capturedSubtitles[Len(capturedSubtitles)] = hist.last.text
  /\ (hist.last.accepted /\ Len(hist.last.before) = MAX_CAPTURED
      /\ capturedSubtitles # << >>) =>
       /\ Len(capturedSubtitles) = MAX_CAPTURED
       /\ SubSeq(capturedSubtitles, 1, MAX_CAPTURED - 1) =
            SubSeq(hist.last.before, 2, MAX_CAPTURED)

\* A caption was accepted into a full buffer: the oldest one is gone.
C4_Witness ==
  /\ hist.last.accepted
  /\ Len(hist.last.before) = MAX_CAPTURED
  /\ Len(capturedSubtitles) = MAX_CAPTURED
  /\ Len(hist.sinceClear) > MAX_CAPTURED
  /\ capturedSubtitles[1] # hist.last.before[1]
  /\ capturedSubtitles[MAX_CAPTURED] = hist.last.text

(***************************************************************************)
(* SubtitleStorageManager on its own: its operations called one after the  *)
(* other, each running to completion, on a store that starts empty         *)
(* (SpecStore) or nearly full (SpecCap, saveSubtitle only).                *)
(***************************************************************************)
Titles == { "", "Old Title", "New Title" }

\* a collection of n entries of session 1, newest (highest id) first
FilledSubtitles(n) ==
  [ i \in 1..n |-> [ id |-> n + 2 - i, text |-> Hello, sessionId |-> 1 ] ]

NearlyFullStoreInit ==
  /\ subtitlesKey = FilledSubtitles(MAX_SUBTITLES - CapGap)
  /\ sessionsKey = startSessionResult(<< >>, 1, "netflix", "url", "Old Title", 0)
  /\ nextId = MAX_SUBTITLES - CapGap + 2

\* no page, no observer, no app
InitIdle ==
  /\ domContainer = 0
  /\ domText = [e \in Elements |-> EmptyText]
  /\ domBudget = 0
  /\ platform = "netflix"
  /\ phase = "idle"
  /\ settings = [subtitleMode |-> "On"]
  /\ lastSubtitle = EmptyText
  /\ sinceProcess = ProcessClockCap
  /\ observer = 0
  /\ leakedObservers = {}
  /\ lastContainer = 0
  /\ processingTimeout = FALSE
  /\ debounceTimer = NoTimer
  /\ pollingInterval = -1
  /\ leakedPolls = {}
  /\ retryTimer = -1
  /\ initialChecks = {}
  /\ checkInterval = -1
  /\ capturedSubtitles = << >>
  /\ storageCallback = FALSE
  /\ currentSessionId = 0
  /\ components = NoComponents
  /\ lastSavedSubtitle = EmptyText
  /\ sinceSaved = MIN_SAVE_INTERVAL
  /\ saves = << >>
  /\ settingsSync = NoSync
  /\ hist = HistInit
  /\ lastOp = NoOp
  /\ now = 1

InitStore == InitIdle /\ EmptyStoreInit /\ ai = AIIdle /\ content = ContentInit

\* the ids an operation is called with: those of the sessions, and one more
SessionIds == { sessionsKey[i].id : i \in 1..Len(sessionsKey) } \cup { 0 }

Before(name, id, title) ==
  [ name |-> name, id |-> id, title |-> title, time |-> now,
    sessions |-> sessionsKey, subtitles |-> subtitlesKey, wrote |-> FALSE ]

StoreStartSession(title) ==
  /\ now <= MaxStoreOps
  /\ sessionsKey' = startSessionResult(sessionsKey, nextId, "netflix", "url",
                                       title, now)
  /\ nextId' = nextId + 1
  /\ lastOp' = [Before("startSession", nextId, title) EXCEPT !.wrote = TRUE]
  /\ now' = now + 1
  /\ UNCHANGED << pageVars, observerVars, appVars, subtitlesKey, ai, content, hist >>

StoreSaveSubtitle(id, text) ==
  /\ now <= MaxStoreOps
  /\ subtitlesKey' = saveSubtitleResult(subtitlesKey,
                       [ id |-> nextId, text |-> text, sessionId |-> id ])
  /\ nextId' = nextId + 1
  /\ lastOp' = [Before("saveSubtitle", nextId, text) EXCEPT !.wrote = TRUE]
  /\ now' = now + 1
  /\ UNCHANGED << pageVars, observerVars, appVars, sessionsKey, ai, content, hist >>

StoreEndSession(id) ==
  /\ now <= MaxStoreOps
  /\ LET r == endSessionResult(sessionsKey, subtitlesKey, id, now)
     IN /\ sessionsKey' = r.sessions
        /\ lastOp' = [Before("endSession", id, "") EXCEPT !.wrote = r.wrote]
  /\ now' = now + 1
  /\ UNCHANGED << pageVars, observerVars, appVars, subtitlesKey, nextId, ai, content,
                  hist >>

StoreUpdateSessionTitle(id, title) ==
  /\ now <= MaxStoreOps
  /\ LET r == updateSessionTitleResult(sessionsKey, id, title)
     IN /\ sessionsKey' = r.sessions
        /\ lastOp' = [Before("updateSessionTitle", id, title)
                        EXCEPT !.wrote = r.wrote]
  /\ now' = now + 1
  /\ UNCHANGED << pageVars, observerVars, appVars, subtitlesKey, nextId, ai, content,
                  hist >>

NextStore ==
  \/ \E title \in {Undefined, "Old Title"} : StoreStartSession(title)
  \/ \E id \in SessionIds : StoreSaveSubtitle(id, Hello)
  \/ \E id \in SessionIds : StoreEndSession(id)
  \/ \E id \in SessionIds, title \in Titles : StoreUpdateSessionTitle(id, title)

SpecStore == InitStore /\ [][NextStore]_vars

InitCap == InitIdle /\ NearlyFullStoreInit /\ ai = AIIdle /\ content = ContentInit

NextCap ==
  \E id \in SessionIds, text \in {Hello, HelloThere} : StoreSaveSubtitle(id, text)

SpecCap == InitCap /\ [][NextCap]_vars

\* C5: the persisted entry collection never holds more than MAX_SUBTITLES
\* entries and is ordered newest first; a save puts the new entry in front
\* and keeps the entries that were there in their order, dropping only from
\* the tail (the oldest) what exceeds the cap.
C5_StoreCappedNewestFirst ==
  /\ Len(subtitlesKey) <= MAX_SUBTITLES
  /\ \A i \in 1..(Len(subtitlesKey) - 1) :
       subtitlesKey[i].id > subtitlesKey[i + 1].id
  /\ lastOp.name = "saveSubtitle" =>
       /\ Len(subtitlesKey) = Min(Len(lastOp.subtitles) + 1, MAX_SUBTITLES)
       /\ subtitlesKey[1].id = lastOp.id
       /\ subtitlesKey[1].text = lastOp.title
       /\ Tail(subtitlesKey) =
            SubSeq(lastOp.subtitles, 1, Len(subtitlesKey) - 1)

\* A save into a full collection: the oldest entry is gone, the second
\* oldest is now the last.
C5_Witness ==
  /\ lastOp.name = "saveSubtitle"
  /\ Len(lastOp.subtitles) = MAX_SUBTITLES
  /\ Len(subtitlesKey) = MAX_SUBTITLES
  /\ subtitlesKey[MAX_SUBTITLES] = lastOp.subtitles[MAX_SUBTITLES - 1]
  /\ subtitlesKey[1].id = lastOp.id

\* the session with this id, before the last operation and now
SessionBefore(id) == lastOp.sessions[findIndex(lastOp.sessions, id)]
SessionNow(id) == sessionsKey[findIndex(sessionsKey, id)]

\* C7: endSession(id) on an existing session sets its endTime to the time of
\* the call and its subtitleCount to the number of stored entries with that
\* sessionId, and changes no other field, no other session and no entry; on
\* an unknown id it writes nothing and changes nothing.
C7_EndSessionSetsEndAndCount ==
  lastOp.name = "endSession" =>
    /\ subtitlesKey = lastOp.subtitles
    /\ IF findIndex(lastOp.sessions, lastOp.id) # 0
       THEN /\ lastOp.wrote
            /\ sessionsKey =
                 [ lastOp.sessions EXCEPT
                     ![findIndex(lastOp.sessions, lastOp.id)] =
                        [ SessionBefore(lastOp.id) EXCEPT
                            !.endTime = lastOp.time,
                            !.subtitleCount =
                               Cardinality({ i \in 1..Len(lastOp.subtitles) :
                                 lastOp.subtitles[i].sessionId = lastOp.id }) ] ]
       ELSE /\ ~ lastOp.wrote
            /\ sessionsKey = lastOp.sessions

\* A session that owns one of the two stored entries was ended.
C7_Witness ==
  /\ lastOp.name = "endSession"
  /\ lastOp.wrote
  /\ SessionBefore(lastOp.id).endTime = NotEnded
  /\ SessionNow(lastOp.id).subtitleCount = 1
  /\ SessionNow(lastOp.id).endTime = lastOp.time
  /\ Len(subtitlesKey) = 2

\* C8: updateSessionTitle(id, title) overwrites the movieTitle of the session
\* only when title is non-empty and differs from the current one; otherwise
\* (empty title, equal title, unknown id) it writes nothing and changes
\* nothing; in every case the other fields, the other sessions and the
\* entries stay as they were.
C8_TitleOverwrittenOnlyWhenNew ==
  lastOp.name = "updateSessionTitle" =>
    /\ subtitlesKey = lastOp.subtitles
    /\ IF /\ findIndex(lastOp.sessions, lastOp.id) # 0
          /\ lastOp.title # ""
          /\ lastOp.title # SessionBefore(lastOp.id).movieTitle
       THEN /\ lastOp.wrote
            /\ sessionsKey =
                 [ lastOp.sessions EXCEPT
                     ![findIndex(lastOp.sessions, lastOp.id)].movieTitle =
                        lastOp.title ]
       ELSE /\ ~ lastOp.wrote
            /\ sessionsKey = lastOp.sessions

\* 'New Title' was written over 'Old Title' while another session exists.
C8_Witness ==
  /\ lastOp.name = "updateSessionTitle"
  /\ lastOp.wrote
  /\ SessionBefore(lastOp.id).movieTitle = "Old Title"
  /\ SessionNow(lastOp.id).movieTitle = "New Title"
  /\ Len(sessionsKey) >= 2

(***************************************************************************)
(* AIResponseService.getAIResponse: one call, from reading the settings to *)
(* the promise being settled.  A message is a sequence of pieces; the      *)
(* piece Cross stands for the cross mark every formatted message starts    *)
(* with.                                                                   *)
(***************************************************************************)
Cross == "[x]"

NotConfiguredMessage ==
  << Cross, " Backend endpoint not configured. Please set up your backend URL in extension settings." >>
ApiKeyMessage(aiPlatform) ==
  << Cross, " API key not configured for ", aiPlatform,
     ". Please add your API key in extension settings." >>
NotFoundMessage ==
  << Cross, " Backend service not found. Please check your backend endpoint URL." >>
AuthMessage ==
  << Cross, " Invalid API key. Please check your API key in extension settings." >>
ServerMessage ==
  << Cross, " Backend server error. Please try again later or contact support." >>
GenericMessage(status, errorText) ==
  << Cross, " Backend error (", ToString(status), "): ", errorText >>
InvalidFormatMessage ==
  << Cross, " Invalid response format from backend. Please check your backend implementation." >>
NetworkMessage ==
  << Cross, " Cannot connect to backend service. Please check your network connection and backend URL." >>
TimeoutMessage ==
  << Cross, " Backend request timed out. Please try again or check if your backend is running." >>

\* new Error(message)
Error(message) == [ type |-> "Error", name |-> "Error", message |-> message ]
NoError == [ type |-> "none", name |-> "", message |-> << >> ]

\* String.startsWith and String.includes on messages
startsWith(message, piece) == Len(message) >= 1 /\ message[1] = piece
includes(message, piece) == \E i \in 1..Len(message) : message[i] = piece

\* A variant of the configuration checks that tests the API key first.
configError_KeyFirst(s) ==
  IF s.apiKey = "" /\ s.aiPlatform # "ollama"
  THEN Error(ApiKeyMessage(s.aiPlatform))
  ELSE IF s.backendEndpoint = ""
  THEN Error(NotConfiguredMessage)
  ELSE NoError

\* A variant of the configuration checks without the exception for ollama.
configError_NoOllama(s) ==
  IF s.backendEndpoint = ""
  THEN Error(NotConfiguredMessage)
  ELSE IF s.apiKey = ""
  THEN Error(ApiKeyMessage(s.aiPlatform))
  ELSE NoError

\* the two configuration checks in front of the request
configError(s) ==
  IF s.backendEndpoint = ""
  THEN Error(NotConfiguredMessage)
  ELSE IF s.apiKey = "" /\ s.aiPlatform # "ollama"
  THEN Error(ApiKeyMessage(s.aiPlatform))
  ELSE NoError

\* response.ok
ok(status) == status >= 200 /\ status <= 299

\* A variant of the status mapping that knows 401 only.
statusError_Only401(status, errorText) ==
  IF status = 404 THEN Error(NotFoundMessage)
  ELSE IF status = 401 THEN Error(AuthMessage)
  ELSE IF status >= 500 THEN Error(ServerMessage)
  ELSE Error(GenericMessage(status, errorText))

\* the error thrown for a response that is not ok
statusError(status, errorText) ==
  IF status = 404 THEN Error(NotFoundMessage)
  ELSE IF status = 401 \/ status = 403 THEN Error(AuthMessage)
  ELSE IF status >= 500 THEN Error(ServerMessage)
  ELSE Error(GenericMessage(status, errorText))

\* the catch block: what the promise is rejected with
catchBlock(error) ==
  IF error.type = "TypeError" /\ includes(error.message, "fetch")
  THEN Error(NetworkMessage)
  ELSE IF error.type = "DOMException" /\ error.name = "TimeoutError"
  THEN Error(TimeoutMessage)
  ELSE IF startsWith(error.message, Cross)
  THEN error
  ELSE Error(<< Cross, " AI service error: " >> \o error.message)

\* data.response || data.answer || data.result
aiResponseOf(data) ==
  IF data.response # "" THEN data.response
  ELSE IF data.answer # "" THEN data.answer
  ELSE data.result

Endpoints == { "", "http://localhost:8000" }
ApiKeys == { "", "sk-key" }
Platforms == { "openai", "ollama" }
Statuses == { 200, 201, 301, 400, 401, 403, 404, 418, 429, 499, 500, 502, 503 }
ErrorTexts == { "Bad request", AuthMessage[2] }
\* what response.json() resolves with: an object with some of the answer
\* fields ("" stands for an absent or empty field), or the JSON value null
Bodies ==
  { [ isNull |-> FALSE, response |-> r, answer |-> a, result |-> x ] :
      r \in { "", "It is a heist." }, a \in { "", "He is the uncle." },
      x \in { "", "They are cousins." } }
  \cup { [ isNull |-> TRUE, response |-> "", answer |-> "", result |-> "" ] }
NoBody == [ isNull |-> FALSE, response |-> "", answer |-> "", result |-> "" ]
\* what fetch, response.text() and response.json() reject with
FetchFailures ==
  { [ type |-> "TypeError", name |-> "TypeError",
      message |-> << "Failed to ", "fetch" >> ],
    [ type |-> "DOMException", name |-> "TimeoutError",
      message |-> << "The operation timed out." >> ],
    [ type |-> "DOMException", name |-> "AbortError",
      message |-> << "The operation was aborted." >> ] }
JsonFailure ==
  [ type |-> "SyntaxError", name |-> "SyntaxError",
    message |-> << "Unexpected token < in JSON" >> ]

\* reading a property of null
NullPropertyFailure ==
  [ type |-> "TypeError", name |-> "TypeError",
    message |-> << "Cannot read properties of null (reading 'response')" >> ]

\* A variant of the rejection that answers with a generated reply instead.
Rejected_Fallback(thrown) ==
  [ kind |-> "resolved", error |-> NoError, value |-> "generated reply" ]

Rejected(thrown) ==
  [ kind |-> "rejected", error |-> catchBlock(thrown), value |-> "" ]
Resolved(value) == [ kind |-> "resolved", error |-> NoError, value |-> value ]
Pending == [ kind |-> "pending", error |-> NoError, value |-> "" ]

\* the request body: JSON.stringify(payload), sent to the endpoint
payloadOf(s) ==
  [ endpoint |-> s.backendEndpoint, platform |-> s.aiPlatform,
    apiKey |-> s.apiKey ]

\* A variant of the throw that sends the request a second time.
throwInto_Retry(a, e) ==
  IF a.requests = 1
  THEN [a EXCEPT !.pc = "fetch", !.requests = @ + 1,
                 !.sent = Append(@, payloadOf(a.settings))]
  ELSE [a EXCEPT !.pc = "done", !.thrown = e, !.outcome = Rejected(e)]

\* an error thrown inside the try block: the catch block settles the promise
throwInto(a, e) ==
  [a EXCEPT !.pc = "done", !.thrown = e, !.outcome = Rejected(e)]

\* the crx-ai-question handler's own catch block
SorryMessage == << "Sorry, I encountered an error processing your question." >>

\* what the crx-ai-question handler passes to receiveAIResponse
replyFor(outcome) ==
  IF outcome.kind = "resolved" THEN << outcome.value >> ELSE SorryMessage

InitAI ==
  /\ InitIdle
  /\ EmptyStoreInit
  /\ content = ContentInit
  /\ \E e \in Endpoints, k \in ApiKeys, p \in Platforms :
       ai = [ pc |-> "getSettings",
              settings |-> [backendEndpoint |-> e, apiKey |-> k, aiPlatform |-> p],
              requests |-> 0, sent |-> << >>, status |-> 0, body |-> NoBody,
              thrown |-> NoError, outcome |-> Pending,
              reply |-> [shown |-> FALSE, content |-> << >>] ]

AIUnchanged ==
  UNCHANGED << pageVars, observerVars, appVars, storeVars, content, hist,
               lastOp, now >>

\* getSettings resolves: the checks run and the request is sent, or an error
\* is thrown into the catch block.
AIGetSettingsDone ==
  /\ ai.pc = "getSettings"
  /\ LET e == configError(ai.settings)
     IN ai' = IF e # NoError
              THEN throwInto(ai, e)
              ELSE [ai EXCEPT !.pc = "fetch", !.requests = @ + 1,
                              !.sent = Append(@, payloadOf(ai.settings))]
  /\ AIUnchanged

\* fetch rejects (network failure, timeout, abort)
AIFetchFails(e) ==
  /\ ai.pc = "fetch"
  /\ ai' = throwInto(ai, e)
  /\ AIUnchanged

\* fetch resolves with a response
AIFetchResponds(status) ==
  /\ ai.pc = "fetch"
  /\ ai' = [ai EXCEPT !.pc = IF ok(status) THEN "json" ELSE "text",
                      !.status = status]
  /\ AIUnchanged

\* response.text() settles ('Unknown error' when it rejects) and the error
\* for the status is thrown
AIErrorTextDone(errorText) ==
  /\ ai.pc = "text"
  /\ ai' = throwInto(ai, statusError(ai.status, errorText))
  /\ AIUnchanged

\* response.json() resolves
AIJsonDone(data) ==
  /\ ai.pc = "json"
  /\ ai' = IF data.isNull
           THEN throwInto([ai EXCEPT !.body = data], NullPropertyFailure)
           ELSE IF aiResponseOf(data) = ""
           THEN throwInto([ai EXCEPT !.body = data], Error(InvalidFormatMessage))
           ELSE [ai EXCEPT !.pc = "done", !.body = data,
                           !.outcome = Resolved(aiResponseOf(data))]
  /\ AIUnchanged

\* response.json() rejects
AIJsonFails ==
  /\ ai.pc = "json"
  /\ ai' = throwInto(ai, JsonFailure)
  /\ AIUnchanged

\* The crx-ai-question handler resumes after its await and hands the reply
\* to AIChatInterface.receiveAIResponse, which shows it.
ChatReceiveAIResponse ==
  /\ ai.pc = "done"
  /\ ~ ai.reply.shown
  /\ ai' = [ai EXCEPT !.reply = [shown |-> TRUE, content |-> replyFor(ai.outcome)]]
  /\ AIUnchanged

NextAI ==
  \/ AIGetSettingsDone
  \/ \E e \in FetchFailures : AIFetchFails(e)
  \/ \E status \in Statuses : AIFetchResponds(status)
  \/ \E t \in ErrorTexts \cup { "Unknown error" } : AIErrorTextDone(t)
  \/ \E data \in Bodies : AIJsonDone(data)
  \/ AIJsonFails
  \/ ChatReceiveAIResponse

SpecAI == InitAI /\ [][NextAI]_vars

C11_ReplyIsErrorMessage ==
  (ai.pc # "unused" /\ ai.reply.shown /\ ai.outcome.kind = "rejected") =>
    ai.reply.content = ai.outcome.error.message

C14_FirstAnswerFieldOrMalformed ==
  (ai.pc = "done" /\ ok(ai.status) /\ ai.thrown # JsonFailure) =>
    IF ai.body.response # ""
    THEN ai.outcome.kind = "resolved" /\ ai.outcome.value = ai.body.response
    ELSE IF ai.body.answer # ""
    THEN ai.outcome.kind = "resolved" /\ ai.outcome.value = ai.body.answer
    ELSE IF ai.body.result # ""
    THEN ai.outcome.kind = "resolved" /\ ai.outcome.value = ai.body.result
    ELSE /\ ai.outcome.kind = "rejected"
         /\ ai.outcome.error.message = InvalidFormatMessage

\* C15: one call sends at most one HTTP request: after a response that is
\* not 2xx, a network failure, a timeout or a malformed body the call is
\* settled and nothing is sent again.
C15_AtMostOneRequest ==
  ai.pc # "unused" =>
    /\ ai.requests <= 1
    /\ Len(ai.sent) = ai.requests
    /\ (ai.thrown # NoError) => (ai.pc = "done" /\ ai.outcome.kind = "rejected")

\* The one request was answered with a server error and the call rejected.
C15_Witness ==
  /\ ai.pc = "done"
  /\ ai.requests = 1
  /\ ai.status >= 500
  /\ ai.outcome.kind = "rejected"
  /\ ai.reply.shown

(***************************************************************************)
(* Export.  A persisted entry is what saveSubtitleToStorage builds and     *)
(* saveSubtitle stores: text, platform, timestamp, sessionId (0 = null),   *)
(* url, movieTitle (may be undefined) and id.  The JSON text of an object  *)
(* is the sequence of its members, each a key with its value; a key whose  *)
(* value is undefined has no member, and null is a value of its own.       *)
(***************************************************************************)
JsonNull == [ isNull |-> TRUE ]
JsonOf(v) == [ isNull |-> FALSE, v |-> v ]
EntryKeys == << "text", "platform", "timestamp", "sessionId", "url",
                "movieTitle", "id" >>

\* the object saveSubtitleToStorage hands to saveSubtitle, with the id that
\* saveSubtitle adds
subtitleEntry(text, time, session, title, id) ==
  [ text |-> trim(text), platform |-> "netflix", timestamp |-> time,
    sessionId |-> session, url |-> "url", movieTitle |-> title, id |-> id ]

\* JSON.stringify of one value of an entry
jsonValue(key, e) ==
  IF key = "sessionId" /\ e.sessionId = 0 THEN JsonNull ELSE JsonOf(e[key])

hasMember(key, e) == ~ (key = "movieTitle" /\ e.movieTitle = Undefined)

\* JSON.stringify of one entry: the members in the order of the keys
stringifyEntry(e) ==
  LET Members[i \in 0..Len(EntryKeys)] ==
        IF i = 0 THEN << >>
        ELSE IF hasMember(EntryKeys[i], e)
             THEN Append(Members[i - 1],
                         [ key |-> EntryKeys[i],
                           value |-> jsonValue(EntryKeys[i], e) ])
             ELSE Members[i - 1]
  IN Members[Len(EntryKeys)]

\* the keys of the filtered sets of the metadata: filter(Boolean)
titlesOf(subtitles) ==
  { subtitles[i].movieTitle : i \in 1..Len(subtitles) } \ { Undefined, "" }

\* A variant of the export that lists the oldest entry first.
exportSubtitles_OldestFirst(subtitles, time) ==
  [ subtitles |-> [ i \in 1..Len(subtitles) |->
                      stringifyEntry(subtitles[Len(subtitles) + 1 - i]) ],
    exportDate |-> time,
    metadata |-> [ totalSubtitles |-> Len(subtitles),
                   platforms |-> { subtitles[i].platform :
                                     i \in 1..Len(subtitles) },
                   movies |-> titlesOf(subtitles) ] ]

\* exportSubtitles('json'): the document that is written out
exportSubtitles(subtitles, time) ==
  [ subtitles |-> [ i \in 1..Len(subtitles) |-> stringifyEntry(subtitles[i]) ],
    exportDate |-> time,
    metadata |-> [ totalSubtitles |-> Len(subtitles),
                   platforms |-> { subtitles[i].platform :
                                     i \in 1..Len(subtitles) },
                   movies |-> titlesOf(subtitles) ] ]

\* JSON.parse of one entry: a member's value under its key, null read back
\* as null, and undefined for a key that has no member
memberOf(members, key) ==
  SelectSeq(members, LAMBDA m : m.key = key)

parseValue(members, key) ==
  LET found == memberOf(members, key)
  IN IF found = << >> THEN Undefined
     ELSE IF found[1].value.isNull THEN 0
     ELSE found[1].value.v

parseEntry(members) ==
  [ text |-> parseValue(members, "text"),
    platform |-> parseValue(members, "platform"),
    timestamp |-> parseValue(members, "timestamp"),
    sessionId |-> parseValue(members, "sessionId"),
    url |-> parseValue(members, "url"),
    movieTitle |-> parseValue(members, "movieTitle"),
    id |-> parseValue(members, "id") ]

\* JSON.parse(export).subtitles
readBack(document) ==
  [ i \in 1..Len(document.subtitles) |-> parseEntry(document.subtitles[i]) ]

MovieTitles == { Undefined, "Old Title" }
SaveTexts == { Hello, HelloThereWide }

\* saveSubtitleToStorage past its checks, and the saveSubtitle it awaits
ExportSaveSubtitle(text, session, title) ==
  /\ now <= MaxStoreOps
  /\ subtitlesKey' = saveSubtitleResult(subtitlesKey,
                       subtitleEntry(text, now, session, title, nextId))
  /\ nextId' = nextId + 1
  /\ lastOp' = [ name |-> "saveSubtitle" ]
  /\ now' = now + 1
  /\ UNCHANGED << pageVars, observerVars, appVars, sessionsKey, ai, content, hist >>

\* exportSubtitles('json')
ExportSubtitles ==
  /\ now <= MaxStoreOps
  /\ lastOp' = [ name |-> "exportSubtitles",
                 subtitles |-> subtitlesKey,
                 exported |-> exportSubtitles(subtitlesKey, now) ]
  /\ now' = now + 1
  /\ UNCHANGED << pageVars, observerVars, appVars, storeVars, ai, content, hist >>

NextExport ==
  \/ \E text \in SaveTexts, session \in {0, 1}, title \in MovieTitles :
       ExportSaveSubtitle(text, session, title)
  \/ ExportSubtitles

SpecExport == InitStore /\ [][NextExport]_vars

InitContent ==
  /\ Init
  /\ platform = "netflix"
  /\ domContainer = 0

\* The time to the next timer passes; nothing else is pending.
WaitForTimer ==
  /\ NoTimerDue
  /\ debounceTimer = NoTimer /\ pollingInterval = -1
  /\ initialChecks = {} /\ leakedPolls = {} /\ saves = << >>
  /\ retryTimer > 0 /\ checkInterval > 0
  /\ LET d == Min(retryTimer, checkInterval)
     IN /\ retryTimer' = retryTimer - d
        /\ checkInterval' = checkInterval - d
        /\ sinceProcess' = Min(sinceProcess + d, ProcessClockCap)
        /\ sinceSaved' = Min(sinceSaved + d, MIN_SAVE_INTERVAL)
        /\ hist' = [ hist EXCEPT
                       !.sinceAccept = Min(@ + d, ProcessClockCap),
                       !.sinceReading = Min(@ + d, ProcessClockCap) ]
  /\ UNCHANGED << pageVars, platform, phase, settings, lastSubtitle, observer,
                  leakedObservers, lastContainer, processingTimeout,
                  debounceTimer, pollingInterval, leakedPolls, initialChecks,
                  capturedSubtitles, storageCallback, currentSessionId, components,
                  lastSavedSubtitle, saves, storeVars, ai, content, lastOp,
                  now, settingsSync >>

\* The page navigates or redraws: the URL carries a content id or none, and
\* the player objects and the title elements are what the new page has.
Navigate(id, player, dom) ==
  /\ domBudget > 0
  /\ << id, player, dom >> # << content.url, content.player, content.dom >>
  /\ domBudget' = domBudget - 1
  /\ content' = [ content EXCEPT !.url = id, !.player = player, !.dom = dom,
                                 !.held = IF id = content.url THEN @ ELSE NoInfo,
                                 !.latest = IF id = content.url THEN @ ELSE NoInfo ]
  /\ UNCHANGED << domContainer, domText, observerVars, appVars, storeVars, ai,
                  hist, lastOp, now >>

\* More than 2 * PLAYER_CHECK_INTERVAL pass since the last player result.
PlayerCheckAges ==
  /\ content.playerCheckRecent
  /\ content' = [ content EXCEPT !.playerCheckRecent = FALSE ]
  /\ UNCHANGED << pageVars, observerVars, appVars, storeVars, ai, hist, lastOp,
                  now >>

\* A caller asks the running observer for the content information.
GetContentInfo ==
  /\ phase = "running"
  /\ LET r == getContentInfo(content)
         resolvedNow == /\ r.via \in {"player", "dom"}
                        /\ content.url # 0
                        /\ r.result.movieId = content.url
     IN /\ content' = [ r.content EXCEPT
                          !.held = IF @.isNull /\ resolvedNow THEN r.result ELSE @ ]
        /\ lastOp' = [ name |-> "getContentInfo", before |-> content,
                       result |-> r.result, via |-> r.via ]
  /\ UNCHANGED << pageVars, observerVars, appVars, storeVars, ai, hist, now >>

NextContent ==
  \/ InitializeComponents(TRUE)
  \/ RetryFire
  \/ PeriodicCheckFire
  \/ WaitForTimer
  \/ \E id \in {0} \cup MovieIds, player \in PlayerStates, dom \in DomInfos :
       Navigate(id, player, dom)
  \/ PlayerCheckAges
  \/ GetContentInfo

SpecContent == InitContent /\ [][NextContent]_vars

\* The sources of a getContentInfo call, as they were when it was made.
CallMade == lastOp.name = "getContentInfo"
CallUrl == lastOp.before.url
CallCached ==
  IF CallUrl = 0 THEN NoInfo ELSE lastOp.before.movieIdCache[CallUrl]
CallPlayer ==
  getContentInfoFromPlayer(CallUrl, lastOp.before.player, lastOp.before.dom)
CallDom == lastOp.before.dom

\* C17: getContentInfo returns what the first of its sources with a title
\* gives, in the order cache entry of the URL's content id, player, DOM
\* heuristics, last-known-good fallback; it returns null only when the cache
\* has no entry for the URL's id, the player and the DOM give no title and
\* no last-known-good title is kept for a URL with a content id.
C17_FirstSourceWithTitle ==
  CallMade =>
    /\ hasTitle(CallCached) => lastOp.result = CallCached
    /\ (~ hasTitle(CallCached) /\ hasTitle(CallPlayer)) =>
         /\ lastOp.result.title = CallPlayer.title
         /\ lastOp.result.contentType = CallPlayer.contentType
    /\ (~ hasTitle(CallCached) /\ ~ hasTitle(CallPlayer) /\ hasTitle(CallDom)) =>
         /\ lastOp.result.title = CallDom.title
         /\ lastOp.result.contentType = CallDom.contentType
    /\ (~ hasTitle(CallCached) /\ ~ hasTitle(CallPlayer) /\ ~ hasTitle(CallDom)
          /\ ~ lastOp.result.isNull) =>
         lastOp.result.title \in { lastOp.before.lastKnownGoodTitle,
                                   lastOp.before.cachedContentInfo.title }
    /\ lastOp.result.isNull =>
         /\ ~ hasTitle(CallCached)
         /\ ~ hasTitle(CallPlayer)
         /\ ~ hasTitle(CallDom)
         /\ ~ (CallUrl # 0 /\ lastOp.before.lastKnownGoodTitle # "")
    /\ ~ lastOp.result.isNull => lastOp.result.title # ""

\* A call that the cache, the player and the DOM leave unanswered and the
\* last-known-good title answers.
C17_Witness ==
  /\ CallMade
  /\ ~ hasTitle(CallCached) /\ ~ hasTitle(CallPlayer) /\ ~ hasTitle(CallDom)
  /\ lastOp.via = "fallback"
  /\ lastOp.result.title = lastOp.before.lastKnownGoodTitle

\* C18: a title that getContentInfo returns through the last-known-good
\* fallback while the URL's content id is X was resolved, by the player or
\* the DOM, for X; and every title cached under an id was resolved for that
\* id, so none is carried over from the id the URL had before.
C18_FallbackTitleOfSameId ==
  /\ (CallMade /\ lastOp.via \in {"recent", "fallback"} /\ CallUrl # 0) =>
       << CallUrl, lastOp.result.title >> \in lastOp.before.resolved
  /\ \A id \in MovieIds :
       hasTitle(content.movieIdCache[id]) =>
         << id, content.movieIdCache[id].title >> \in content.resolved

InitShowing(p) ==
  /\ domContainer = 1
  /\ domText = [e \in Elements |-> IF e = 1 THEN Hello ELSE EmptyText]
  /\ domBudget = MaxDomEvents
  /\ platform = p
  /\ phase = "idle"
  /\ settings = [subtitleMode |-> "On"]
  /\ lastSubtitle = EmptyText
  /\ sinceProcess = ProcessClockCap
  /\ observer = 0
  /\ leakedObservers = {}
  /\ lastContainer = 0
  /\ processingTimeout = FALSE
  /\ debounceTimer = NoTimer
  /\ pollingInterval = -1
  /\ leakedPolls = {}
  /\ retryTimer = -1
  /\ initialChecks = {}
  /\ checkInterval = -1
  /\ capturedSubtitles = << >>
  /\ storageCallback = FALSE
  /\ currentSessionId = 0
  /\ components = NoComponents
  /\ lastSavedSubtitle = EmptyText
  /\ sinceSaved = MIN_SAVE_INTERVAL
  /\ saves = << >>
  /\ settingsSync = NoSync
  /\ EmptyStoreInit
  /\ ai = AIIdle /\ content = ContentInit
  /\ hist = HistInit
  /\ lastOp = NoOp
  /\ now = 1

InitNetflix == InitShowing("netflix")

NextNetflix ==
  \/ \E sessionOk \in BOOLEAN : InitializeComponents(sessionOk)
  \/ \E t \in {Hello, HelloThere} : DomTextChange(t)
  \/ \E e \in Elements : DomAddContainer(e)
  \/ DomRemoveContainer
  \/ InitialCheckFire
  \/ DebounceFire
  \/ PollFire
  \/ LeakedPollFire
  \/ PeriodicCheckFire
  \/ StorageGetDone
  \/ StorageSetDone
  \/ Tick

SpecNetflix == InitNetflix /\ [][NextNetflix]_vars

\* the interval callback of the periodic check runs in this step
PeriodicStep == checkInterval = 0 /\ checkInterval' = CHECK_INTERVAL

\* C20: a periodic check that finds no caption container while a watcher is
\* attached disconnects the watcher and leaves lastSubtitle, the capture
\* buffer and the settings as they are; a periodic check that finds the
\* container again and no watcher attaches one, the observer still running
\* from the one start(); and the caption that was the last accepted before
\* the loss is not accepted again when it is read after that.
C20_LossKeepsStateAndResumes ==
  [][ /\ (PeriodicStep /\ domContainer = 0 /\ observer # 0) =>
           /\ observer' = 0
           /\ lastSubtitle' = lastSubtitle
           /\ capturedSubtitles' = capturedSubtitles
           /\ settings' = settings
      /\ (PeriodicStep /\ domContainer # 0 /\ observer = 0) =>
           /\ observer' = domContainer
           /\ phase = "running" /\ phase' = "running"
           /\ lastSubtitle' = lastSubtitle
           /\ capturedSubtitles' = capturedSubtitles
      /\ ~ hist'.loss.reaccepted
      /\ (hist'.loss.stage # "none" /\ ~ hist'.loss.accepted) =>
           lastSubtitle' = hist'.loss.subtitle ]_vars

\* The watcher was disconnected after 'Hello.' had been accepted, a later
\* periodic check attached one again, and 'Hello.' was then read and not
\* accepted.
C20_Witness ==
  /\ hist.loss.stage = "resumed"
  /\ hist.loss.subtitle = Hello
  /\ hist.loss.reread
  /\ ~ hist.loss.accepted
  /\ observer # 0
  /\ phase = "running"
  /\ capturedSubtitles = << Hello >>

(***************************************************************************)
(* Pausing the capture: the overlay menu switches subtitleMode while the   *)
(* observer runs on a page that shows a caption when start() is called.    *)
(***************************************************************************)
InitPause == InitShowing("disney")

NextPause ==
  \/ \E sessionOk \in BOOLEAN : InitializeComponents(sessionOk)
  \/ \E t \in {Hello, HelloThere} : DomTextChange(t)
  \/ \E m \in Modes : UpdateSettings(m)
  \/ InitialCheckFire
  \/ DebounceFire
  \/ PollFire
  \/ StorageGetDone
  \/ StorageSetDone
  \/ Tick

SpecPause == InitPause /\ [][NextPause]_vars

\* a timer callback calls processSubtitleChanges in this step
ProcessStep ==
  /\ domBudget' = domBudget
  /\ phase' = phase
  /\ \/ \E t \in initialChecks : t.left = 0 /\ initialChecks' = initialChecks \ {t}
     \/ debounceTimer.left = 0 /\ debounceTimer' = NoTimer
     \/ pollingInterval = 0 /\ pollingInterval' = POLL_INTERVAL /\ lastContainer # 0

\* C21: a processSubtitleChanges call made while subtitleMode is 'Off'
\* accepts no caption and leaves the buffer, lastSubtitle, the time of the
\* last acceptance, the watcher and every timer but the one that made the
\* call as they are (the poll stays armed, nothing is saved); the first call
\* made after updateSettings has set another mode accepts its reading when
\* that is non-empty, differs from lastSubtitle and is past the throttle,
\* with the watcher and poll of the one start().
C21_OffIsNoOpAndResumes ==
  [][ /\ (ProcessStep /\ settings.subtitleMode = "Off") =>
           /\ ~ hist'.last.accepted
           /\ capturedSubtitles' = capturedSubtitles
           /\ lastSubtitle' = lastSubtitle
           /\ sinceProcess' = sinceProcess
           /\ observer' = observer
           /\ leakedObservers' = leakedObservers
           /\ lastContainer' = lastContainer
           /\ (pollingInterval' = -1) = (pollingInterval = -1)
           /\ leakedPolls' = leakedPolls
           /\ retryTimer' = retryTimer
           /\ checkInterval' = checkInterval
           /\ initialChecks' \subseteq initialChecks
           /\ debounceTimer' \in {debounceTimer, NoTimer}
           /\ saves' = saves
           /\ subtitlesKey' = subtitlesKey
           /\ hist'.appends = hist.appends
           /\ hist'.calls = hist.calls
      /\ (ProcessStep /\ settings.subtitleMode # "Off" /\ hist.pause = "off") =>
           LET text == hist'.last.text
               fresh == /\ trim(text) # EmptyText
                        /\ normalize(text) # normalize(lastSubtitle)
                        /\ sinceProcess >= MIN_PROCESS_INTERVAL
           IN /\ hist'.last.accepted = fresh
              /\ fresh => /\ capturedSubtitles' = Append(capturedSubtitles, text)
                          /\ lastSubtitle' = text
                          /\ hist'.pause = "resumed"
              /\ phase = "running"
              /\ observer' = observer /\ observer # 0 ]_vars

\* 'Hello.' was on the screen while the mode was 'Off' and a call ran as a
\* no-op; after the mode was set back the next call accepted it.
C21_Witness ==
  /\ hist.pause = "resumed"
  /\ settings.subtitleMode # "Off"
  /\ hist.last.accepted
  /\ capturedSubtitles = << Hello >>
  /\ lastSubtitle = Hello
  /\ phase = "running"
  /\ observer # 0

\* C35: once no save is in flight, every caption accepted while the session
\* of the page was active has its entry in the stored collection, also when
\* the saveSubtitle calls of two captions overlapped.
C35_EveryAcceptedCaptionStored ==
  (currentSessionId # 0 /\ saves = << >>) =>
    \A n \in 1..Len(hist.sinceClear) :
      \E i \in 1..Len(subtitlesKey) :
        /\ subtitlesKey[i].timestamp = n
        /\ subtitlesKey[i].text = trim(hist.sinceClear[n])

\* C24: the capture buffer holds the accepted captions in the order of
\* their acceptance, every persisted entry is one of them, and of two
\* persisted entries the one accepted later is nearer the front of the
\* collection, also when the save of the later caption started while the
\* save of the earlier one was still in flight.
C24_AcceptOrderKept ==
  /\ capturedSubtitles = hist.sinceClear
  /\ \A i \in 1..Len(subtitlesKey) :
       /\ subtitlesKey[i].timestamp \in 1..Len(capturedSubtitles)
       /\ subtitlesKey[i].text = trim(capturedSubtitles[subtitlesKey[i].timestamp])
  /\ \A i, j \in 1..Len(subtitlesKey) :
       i < j => subtitlesKey[i].timestamp > subtitlesKey[j].timestamp

\* Two captions are persisted, and the save of the second started while
\* the save of the first was in flight.
C24_Witness ==
  /\ Len(subtitlesKey) = 2
  /\ hist.overlap
  /\ subtitlesKey[1].text = HelloThere
  /\ subtitlesKey[2].text = Hello
  /\ capturedSubtitles = << Hello, HelloThere >>

(***************************************************************************)
(* The search for the caption container: start() on a page that has no     *)
(* container yet; the page inserts and removes one.  No caption is shown.  *)
(* Timers that are due run, and time passes: the fairness conditions are   *)
(* those of the browser's event loop.                                      *)
(***************************************************************************)
InitSearch ==
  /\ Init
  /\ domContainer = 0

NextSearch ==
  \/ \E sessionOk \in BOOLEAN : InitializeComponents(sessionOk)
  \/ \E e \in Elements : DomAddContainer(e)
  \/ DomRemoveContainer
  \/ RetryFire
  \/ InitialCheckFire
  \/ PollFire
  \/ LeakedPollFire
  \/ PeriodicCheckFire
  \/ Stop
  \/ Tick

SpecSearch == InitSearch /\ [][NextSearch]_vars

SpecSearchFair ==
  /\ SpecSearch
  /\ WF_vars(Tick)
  /\ WF_vars(RetryFire)
  /\ WF_vars(InitialCheckFire)
  /\ WF_vars(PollFire)
  /\ WF_vars(LeakedPollFire)
  /\ WF_vars(PeriodicCheckFire)

\* start() has run, stop() has not, and no container has been found so far
Searching == phase = "running" /\ lastContainer = 0

\* a watcher and a poll timer are attached to the container in the page
Observing ==
  /\ domContainer # 0
  /\ observer = domContainer
  /\ lastContainer = domContainer
  /\ pollingInterval # -1

\* C22: from start() until a container is found a lookup is pending, at
\* most retryInterval away, and there is no watcher and no poll timer; a
\* lookup that finds no container schedules the next one retryInterval
\* later; and when the container is in the page from some moment of the
\* search on, with stop() never called, the observer comes to watch and
\* poll it.
C22_SearchRetriesUntilObserving ==
  /\ [](Searching =>
          /\ retryTimer \in 0..retryInterval(platform)
          /\ observer = 0
          /\ leakedObservers = {}
          /\ pollingInterval = -1
          /\ leakedPolls = {})
  /\ [][(Searching /\ retryTimer = 0 /\ retryTimer' # 0 /\ domContainer = 0) =>
          (retryTimer' = retryInterval(platform) /\ Searching')]_vars
  /\ []((Searching /\ [](domContainer # 0 /\ phase = "running")) => <>Observing)

\* The first lookups found nothing, the page then inserted the container,
\* and the lookup after that attached the watcher and the poll.
C22_Witness ==
  /\ Observing
  /\ phase = "running"
  /\ domBudget < MaxDomEvents
  /\ initialChecks # {}
  /\ retryTimer = -1

(***************************************************************************)
(* PlatformDetectionService.  A host name is a sequence of pieces; a       *)
(* domain is one piece, and String.includes is the test that the piece     *)
(* occurs in the host name.                                                *)
(***************************************************************************)
platformConfigs ==
  << [ name |-> "netflix", domain |-> "netflix.com" ],
     [ name |-> "disney", domain |-> "disneyplus.com" ],
     [ name |-> "amazon", domain |-> "primevideo.com" ] >>

Null == [ name |-> "null" ]

\* detectCurrentPlatform: the first configuration whose domain the host
\* name includes, or null
detectCurrentPlatform(hostname) ==
  LET matching == { i \in 1..Len(platformConfigs) :
                      includes(hostname, platformConfigs[i].domain) }
  IN IF matching = {} THEN Null
     ELSE platformConfigs[CHOOSE i \in matching : \A j \in matching : i <= j]

isSupportedPlatform(hostname) == detectCurrentPlatform(hostname) # Null

getPlatformName(hostname) ==
  IF detectCurrentPlatform(hostname) # Null
  THEN detectCurrentPlatform(hostname).name ELSE "unknown"

Hostnames ==
  { << "www.", "netflix.com" >>, << "www.", "disneyplus.com" >>,
    << "www.", "primevideo.com" >>, << "www.", "youtube.com" >>,
    << "localhost" >> }

(***************************************************************************)
(* The content script on any host, a caption on the page.                  *)
(***************************************************************************)
InitAnyHost == \E hostname \in Hostnames : InitShowing(getPlatformName(hostname))

NextAnyHost ==
  \/ \E sessionOk \in BOOLEAN : InitializeComponents(sessionOk)
  \/ \E t \in {Hello, HelloThere} : DomTextChange(t)
  \/ InitialCheckFire
  \/ DebounceFire
  \/ PollFire
  \/ PeriodicCheckFire
  \/ StorageGetDone
  \/ StorageSetDone
  \/ Tick

SpecAnyHost == InitAnyHost /\ [][NextAnyHost]_vars

\* C23: on a host that no PlatformConfig matches the app starts no session,
\* makes and renders no overlay and no chat panel, makes and starts no
\* observer (no watcher, no timer, no storage callback), and no caption is
\* accepted, handed to storage or written.
C23_UnsupportedHostDisabled ==
  platform = "unknown" =>
    /\ phase \in {"idle", "disabled"}
    /\ currentSessionId = 0
    /\ sessionsKey = << >>
    /\ components = NoComponents
    /\ ~ storageCallback
    /\ observer = 0 /\ leakedObservers = {} /\ lastContainer = 0
    /\ debounceTimer = NoTimer /\ ~ processingTimeout
    /\ pollingInterval = -1 /\ leakedPolls = {}
    /\ retryTimer = -1 /\ initialChecks = {} /\ checkInterval = -1
    /\ capturedSubtitles = << >>
    /\ hist.appends = 0 /\ hist.calls = 0
    /\ saves = << >>
    /\ subtitlesKey = << >>

\* initializeComponents has run on an unsupported host and the page has
\* gone on to show another caption.
C23_Witness ==
  /\ platform = "unknown"
  /\ phase = "disabled"
  /\ domBudget < MaxDomEvents
  /\ domText[domContainer] = HelloThere

\* C30: the page starts at most one session, and only on a supported
\* platform; every entry it has written or is writing carries the id of that
\* session; while it has no session id (startSession has not been called, or
\* has failed) it writes and starts to write no entry.
C30_OneSessionOwnsEntries ==
  /\ Len(sessionsKey) <= 1
  /\ sessionsKey # << >> =>
        /\ platform # "unknown"
        /\ currentSessionId # 0
        /\ sessionsKey[1].id = currentSessionId
  /\ currentSessionId # 0 => /\ Len(sessionsKey) = 1
                             /\ sessionsKey[1].id = currentSessionId
  /\ \A i \in 1..Len(subtitlesKey) :
        /\ currentSessionId # 0
        /\ subtitlesKey[i].sessionId = currentSessionId
  /\ \A i \in 1..Len(saves) :
        /\ currentSessionId # 0
        /\ saves[i].sessionId = currentSessionId

\* two captions were accepted and written in the one session of the page
C30_Witness ==
  /\ currentSessionId # 0
  /\ Len(capturedSubtitles) = 2
  /\ Len(subtitlesKey) = 2
  /\ subtitlesKey[1].sessionId = currentSessionId
  /\ subtitlesKey[2].sessionId = currentSessionId
  /\ saves = << >>

\* startSession failed and captions were accepted with no session id
C30_NoSessionCaptions ==
  /\ phase = "running"
  /\ currentSessionId = 0
  /\ hist.calls >= 2
  /\ Len(capturedSubtitles) = 2

(***************************************************************************)
(* SubtitleStorageManager.getSubtitles and the two clear operations, over  *)
(* a stored collection drawn from a pool of entries.  A text is a sequence *)
(* of characters.  An optional field that is absent is the falsy value of  *)
(* its type: the empty text, the number 0, the empty string.               *)
(***************************************************************************)
MaxStored == 3         \* entries in the stored collection
MaxPageSize == 2       \* page sizes asked for
MaxPage == MaxStored + 1

toLowerCase(text) ==
  [ i \in 1..Len(text) |->
      CASE text[i] = "H" -> "h" [] text[i] = "O" -> "o" [] OTHER -> text[i] ]

\* String.prototype.includes
includesText(text, term) ==
  \E i \in 1..(Len(text) - Len(term) + 1) :
    SubSeq(text, i, i + Len(term) - 1) = term

\* Array.prototype.slice(startIndex, endIndex), indices from 0
slice(q, startIndex, endIndex) == SubSeq(q, startIndex + 1, Min(endIndex, Len(q)))

\* A variant that rounds down.
ceilDiv_RoundsDown(a, b) == a \div b

\* Math.ceil(a / b)
ceilDiv(a, b) == (a + b - 1) \div b

DEFAULT_PAGE_SIZE == 50

\* getSubtitles: the filters one after the other, then the page
getSubtitles(allSubtitles, options) ==
  LET byPlatform ==
        IF options.platform # "" /\ options.platform # "all"
        THEN SelectSeq(allSubtitles, LAMBDA e : e.platform = options.platform)
        ELSE allSubtitles
      byContentType ==
        IF options.contentType # "" /\ options.contentType # "all"
        THEN SelectSeq(byPlatform, LAMBDA e : e.contentType = options.contentType)
        ELSE byPlatform
      bySeason ==
        IF options.seasonNumber # 0 /\ options.seasonNumber > 0
        THEN SelectSeq(byContentType, LAMBDA e : e.seasonNumber = options.seasonNumber)
        ELSE byContentType
      byEpisode ==
        IF options.episodeNumber # 0 /\ options.episodeNumber > 0
        THEN SelectSeq(bySeason, LAMBDA e : e.episodeNumber = options.episodeNumber)
        ELSE bySeason
      searchTerm == toLowerCase(options.search)
      bySearch ==
        IF options.search # << >>
        THEN SelectSeq(byEpisode, LAMBDA e :
               \/ includesText(toLowerCase(e.text), searchTerm)
               \/ (e.movieTitle # << >> /\
                     includesText(toLowerCase(e.movieTitle), searchTerm))
               \/ (e.episodeTitle # << >> /\
                     includesText(toLowerCase(e.episodeTitle), searchTerm)))
        ELSE byEpisode
      filteredSubtitles ==
        IF options.sessionId # 0
        THEN SelectSeq(bySearch, LAMBDA e : e.sessionId = options.sessionId)
        ELSE bySearch
      totalCount == Len(filteredSubtitles)
      page == IF options.page # 0 THEN options.page ELSE 1
      pageSize == IF options.pageSize # 0 THEN options.pageSize ELSE DEFAULT_PAGE_SIZE
      startIndex == (page - 1) * pageSize
      endIndex == startIndex + pageSize
  IN [ subtitles |-> slice(filteredSubtitles, startIndex, endIndex),
       totalCount |-> totalCount,
       pageCount |-> ceilDiv(totalCount, pageSize) ]

\* A variant of clearSessionSubtitles that keeps the entries of the session.
clearSessionSubtitlesResult_KeepsSession(subtitles, sessionId) ==
  SelectSeq(subtitles, LAMBDA e : e.sessionId = sessionId)

\* clearSessionSubtitles: what it writes back
clearSessionSubtitlesResult(subtitles, sessionId) ==
  SelectSeq(subtitles, LAMBDA e : e.sessionId # sessionId)

\* The entries the stored collection is drawn from.
StoredEntry(platformName, contentType, season, episode, session, text, title, episodeTitle) ==
  [ platform |-> platformName, contentType |-> contentType,
    seasonNumber |-> season, episodeNumber |-> episode, sessionId |-> session,
    text |-> text, movieTitle |-> title, episodeTitle |-> episodeTitle ]

EntryPool ==
  { StoredEntry("netflix", "series", 1, 2, 1, << "H", "i" >>, << "O", "z" >>, << >>),
    StoredEntry("netflix", "movie", 0, 0, 2, << "y", "o" >>, << >>, << >>),
    StoredEntry("disney", "series", 1, 1, 1, << "y", "e" >>, << "O", "z" >>,
                << "a", "h" >>) }

RECURSIVE Collections(_)
Collections(n) ==
  IF n = 0 THEN { << >> }
  ELSE Collections(n - 1) \cup
       { Append(q, e) : q \in { c \in Collections(n - 1) : Len(c) = n - 1 },
                        e \in EntryPool }

\* The filters a call is made with; the page is chosen by the call.
QueryOptions ==
  [ platform : {"", "all", "netflix"}, contentType : {"", "series"},
    seasonNumber : {0, 1}, episodeNumber : {0, 2},
    search : { << >>, << "H" >> }, sessionId : {0, 1},
    pageSize : 1..MaxPageSize, page : {0} ]

TwoSessions ==
  startSessionResult(startSessionResult(<< >>, 1, "netflix", "url", "Oz", 0),
                     2, "netflix", "url", Undefined, 0)

QueryOp(name, id, options, result) ==
  [ name |-> name, id |-> id, options |-> options, result |-> result,
    sessions |-> sessionsKey, subtitles |-> subtitlesKey ]

NoResult == [ subtitles |-> << >>, totalCount |-> 0, pageCount |-> 0 ]

InitQuery ==
  /\ InitIdle
  /\ subtitlesKey \in Collections(MaxStored)
  /\ sessionsKey = TwoSessions
  /\ nextId = 3
  /\ ai = AIIdle
  /\ content = ContentInit

\* the options page asks for the first page under new filters
StoreGetSubtitles(options) ==
  /\ lastOp.name # "getSubtitles"
  /\ LET asked == [options EXCEPT !.page = 1]
     IN lastOp' = QueryOp("getSubtitles", 0, asked, getSubtitles(subtitlesKey, asked))
  /\ UNCHANGED << pageVars, observerVars, appVars, storeVars, ai, content,
                  hist, now >>

\* ... and for the page after the one it asked for last
StoreGetNextPage ==
  /\ lastOp.name = "getSubtitles"
  /\ lastOp.options.page < MaxPage
  /\ LET asked == [lastOp.options EXCEPT !.page = @ + 1]
     IN lastOp' = QueryOp("getSubtitles", 0, asked, getSubtitles(subtitlesKey, asked))
  /\ UNCHANGED << pageVars, observerVars, appVars, storeVars, ai, content,
                  hist, now >>

StoreClearSessionSubtitles(id) ==
  /\ subtitlesKey' = clearSessionSubtitlesResult(subtitlesKey, id)
  /\ lastOp' = QueryOp("clearSessionSubtitles", id, << >>, NoResult)
  /\ UNCHANGED << pageVars, observerVars, appVars, sessionsKey, nextId, ai,
                  content, hist, now >>

\* clearAllSubtitles: chrome.storage.local.remove of the entry collection,
\* which reads as the empty collection afterwards
StoreClearAllSubtitles ==
  /\ subtitlesKey' = << >>
  /\ lastOp' = QueryOp("clearAllSubtitles", 0, << >>, NoResult)
  /\ UNCHANGED << pageVars, observerVars, appVars, sessionsKey, nextId, ai,
                  content, hist, now >>

NextQuery ==
  \/ \E options \in QueryOptions : StoreGetSubtitles(options)
  \/ StoreGetNextPage
  \/ \E id \in {1, 2, 3} : StoreClearSessionSubtitles(id)
  \/ StoreClearAllSubtitles

SpecQuery == InitQuery /\ [][NextQuery]_vars

\* does entry e pass every filter that options gives?
Matches(e, options) ==
  /\ options.platform \in {"", "all"} \/ e.platform = options.platform
  /\ options.contentType \in {"", "all"} \/ e.contentType = options.contentType
  /\ options.seasonNumber = 0 \/ e.seasonNumber = options.seasonNumber
  /\ options.episodeNumber = 0 \/ e.episodeNumber = options.episodeNumber
  /\ options.sessionId = 0 \/ e.sessionId = options.sessionId
  /\ \/ options.search = << >>
     \/ \E field \in { e.text, e.movieTitle, e.episodeTitle } :
          includesText(toLowerCase(field), toLowerCase(options.search))

RECURSIVE PagesUpTo(_, _, _)
\* the items of pages 1..n one after the other
PagesUpTo(subtitles, options, n) ==
  IF n = 0 THEN << >>
  ELSE PagesUpTo(subtitles, options, n - 1) \o
       getSubtitles(subtitles, [options EXCEPT !.page = n]).subtitles

\* C25: getSubtitles returns as totalCount the number of stored entries
\* that pass every given filter, as pageCount ceil(totalCount / pageSize),
\* and as items at most pageSize entries; the pages 1..pageCount one after
\* the other are the matching entries in stored order, each once; a page
\* above pageCount is empty; and the stored collections are as before.
C25_PagesPartitionMatches ==
  lastOp.name = "getSubtitles" =>
    LET options == lastOp.options
        result == lastOp.result
        matching == SelectSeq(lastOp.subtitles, LAMBDA e : Matches(e, options))
    IN /\ result.totalCount = Len(matching)
       /\ result.pageCount * options.pageSize >= result.totalCount
       /\ (result.pageCount - 1) * options.pageSize < result.totalCount
       /\ result.pageCount >= 0
       /\ Len(result.subtitles) <= options.pageSize
       /\ PagesUpTo(lastOp.subtitles, options, result.pageCount) = matching
       /\ result.subtitles =
            SubSeq(matching, (options.page - 1) * options.pageSize + 1,
                   Min(options.page * options.pageSize, Len(matching)))
       /\ options.page > result.pageCount => result.subtitles = << >>
       /\ subtitlesKey = lastOp.subtitles
       /\ sessionsKey = lastOp.sessions

\* Under a platform filter that two of three stored entries pass, the
\* second and last page of size one was asked for and holds the second of
\* them.
C25_Witness ==
  /\ lastOp.name = "getSubtitles"
  /\ lastOp.options.platform = "netflix"
  /\ lastOp.options.pageSize = 1
  /\ lastOp.options.page = 2
  /\ lastOp.result.totalCount = 2
  /\ lastOp.result.pageCount = 2
  /\ Len(lastOp.subtitles) = 3
  /\ lastOp.subtitles[1].platform = "disney"
  /\ lastOp.result.subtitles = << lastOp.subtitles[3] >>

\* C26: clearSessionSubtitles(s) leaves exactly the entries of the other
\* sessions, in their order; clearAllSubtitles leaves no entry; neither
\* changes the session collection or the settings.
C26_ClearRemovesExactly ==
  /\ lastOp.name = "clearSessionSubtitles" =>
       /\ subtitlesKey = SelectSeq(lastOp.subtitles, LAMBDA e : e.sessionId # lastOp.id)
       /\ \A i \in 1..Len(subtitlesKey) : subtitlesKey[i].sessionId # lastOp.id
       /\ Len(subtitlesKey) =
            Len(lastOp.subtitles) - sessionSubtitleCount(lastOp.subtitles, lastOp.id)
       /\ sessionsKey = lastOp.sessions
  /\ lastOp.name = "clearAllSubtitles" =>
       /\ subtitlesKey = << >>
       /\ sessionsKey = lastOp.sessions
  /\ sessionsKey = TwoSessions
  /\ settings = [subtitleMode |-> "On"]
  /\ ai = AIIdle

\* One session of a collection holding two sessions was cleared.
C26_Witness ==
  /\ lastOp.name = "clearSessionSubtitles"
  /\ lastOp.id = 1
  /\ Len(lastOp.subtitles) = 3
  /\ Len(subtitlesKey) = 1
  /\ subtitlesKey[1].sessionId = 2

(***************************************************************************)
(* Captions that repeat the one before in another spelling: spacing, or    *)
(* letter case.                                                            *)
(***************************************************************************)
HelloThereLower == << "hello", " ", "there." >>

InitSpellings == InitShowing("disney")

NextSpellings ==
  \/ \E sessionOk \in BOOLEAN : InitializeComponents(sessionOk)
  \/ \E t \in {HelloThere, HelloThereWide, HelloThereLower} : DomTextChange(t)
  \/ InitialCheckFire
  \/ DebounceFire
  \/ PollFire
  \/ StorageGetDone
  \/ StorageSetDone
  \/ Tick

SpecSpellings == InitSpellings /\ [][NextSpellings]_vars

\* the text with its letters in lower case
foldCase(text) ==
  [ i \in 1..Len(text) |->
      CASE text[i] = "Hello" -> "hello" [] text[i] = "Hello." -> "hello."
        [] OTHER -> text[i] ]

\* the last reading repeats the caption accepted before it, under the
\* normalization form
Repeats(form(_)) ==
  /\ hist.last.mode # "Off"
  /\ trim(hist.last.text) # EmptyText
  /\ hist.last.prev # EmptyText
  /\ form(hist.last.text) = form(hist.last.prev)

normalizeFolded(text) == foldCase(normalize(text))

\* C27 as stated: a caption equal to the one before it after case and
\* whitespace normalization is not accepted.
C27_CaseAndSpacingDuplicateSuppressed ==
  Repeats(normalizeFolded) =>
    /\ ~ hist.last.accepted
    /\ capturedSubtitles = hist.last.before

\* C27, amended: a caption equal to the one before it after whitespace
\* normalization (it differs only in spacing) is not accepted: the buffer
\* stays as it was, ending with the caption accepted before, and that
\* caption has at most one pending save and at most one stored entry.
C27_SpacingDuplicateSuppressed ==
  Repeats(normalize) =>
    /\ ~ hist.last.accepted
    /\ capturedSubtitles = hist.last.before
    /\ capturedSubtitles # << >>
    /\ capturedSubtitles[Len(capturedSubtitles)] = hist.last.prev
    /\ Cardinality({ i \in 1..Len(saves) :
                       saves[i].timestamp = Len(capturedSubtitles) }) <= 1
    /\ Cardinality({ i \in 1..Len(subtitlesKey) :
                       subtitlesKey[i].timestamp = Len(capturedSubtitles) }) <= 1

\* 'Hello there.' was accepted and stored, and the same words with other
\* spacing were read after it and rejected.
C27_Witness ==
  /\ Repeats(normalize)
  /\ hist.last.text # hist.last.prev
  /\ ~ hist.last.accepted
  /\ hist.last.elapsed >= MIN_PROCESS_INTERVAL
  /\ Len(subtitlesKey) = 2
  /\ subtitlesKey[1].text = hist.last.prev

(***************************************************************************)
(* Empty readings, on the capture pipeline specification.                  *)
(***************************************************************************)
\* C28: a processSubtitleChanges call that reads an empty or whitespace-only
\* caption accepts nothing: the buffer, lastSubtitle and the time of the last
\* acceptance stay, the storage callback is not called, no
\* 'crx-subtitle-captured' event is dispatched, no save is started and the
\* store is not written.
C28_EmptyReadingDropped ==
  [][ (ProcessStep /\ trim(hist'.last.text) = EmptyText) =>
        /\ ~ hist'.last.accepted
        /\ capturedSubtitles' = capturedSubtitles
        /\ lastSubtitle' = lastSubtitle
        /\ sinceProcess' = sinceProcess
        /\ hist'.sinceAccept = hist.sinceAccept
        /\ hist'.appends = hist.appends
        /\ hist'.calls = hist.calls
        /\ hist'.events = hist.events
        /\ saves' = saves
        /\ subtitlesKey' = subtitlesKey
        /\ lastSavedSubtitle' = lastSavedSubtitle
        /\ sinceSaved' = sinceSaved ]_vars

\* a whitespace-only caption was read, in a mode that captures, after
\* 'Hello.' was accepted and long enough after it to pass the throttle, with
\* the storage callback set and a session open: nothing was accepted
C28_Witness ==
  /\ domText[1] = Blank
  /\ trim(hist.last.text) = EmptyText
  /\ hist.last.mode # "Off"
  /\ hist.last.elapsed >= MIN_PROCESS_INTERVAL
  /\ ~ hist.last.accepted
  /\ lastSubtitle = Hello
  /\ capturedSubtitles = << Hello >>
  /\ hist.events = 1
  /\ storageCallback
  /\ currentSessionId # 0

(***************************************************************************)
(* stop() called more than once, and before start().                       *)
(***************************************************************************)
InitStop == InitShowing("netflix")

NextStop ==
  \/ \E sessionOk \in BOOLEAN : InitializeComponents(sessionOk)
  \/ DomTextChange(HelloThere)
  \/ InitialCheckFire
  \/ DebounceFire
  \/ PollFire
  \/ PeriodicCheckFire
  \/ Stop
  \/ StopNotRunning
  \/ StorageGetDone
  \/ StorageSetDone
  \/ Tick

SpecStop == InitStop /\ [][NextStop]_vars

\* C29: in every state stop() applied twice gives what stop() applied once
\* gives, and stop() applied before start() gives the state it was applied
\* to; every stop() call leaves the buffer and lastSubtitle as they are and
\* changes nothing but the handles it releases, and a stop() call made in a
\* state a stop() call has left changes no field at all.
C29_StopIdempotent ==
  /\ [](/\ stop(stop(ObserverState)) = stop(ObserverState)
        /\ phase = "idle" => stop(ObserverState) = ObserverState)
  /\ [][ hist'.stops # hist.stops =>
          /\ ObserverState' = stop(ObserverState)
          /\ capturedSubtitles' = capturedSubtitles
          /\ lastSubtitle' = lastSubtitle
          /\ ObserverState = stop(ObserverState) => ObserverState' = ObserverState
          /\ UNCHANGED << pageVars, platform, settings, sinceProcess,
                          leakedObservers, leakedPolls, retryTimer,
                          initialChecks, storageCallback, appVars, storeVars,
                          ai, content, lastOp, now >> ]_vars

\* stop() was called before start() and twice after captions were captured
C29_Witness ==
  /\ hist.stops = 3
  /\ phase = "stopped"
  /\ capturedSubtitles # << >>
  /\ lastSubtitle # EmptyText

(***************************************************************************)
(* The poll as the backup of the watcher: text changes whose mutation      *)
(* events are missed.                                                      *)
(***************************************************************************)
InitPoll == InitShowing("disney")

\* startSession fails here, so that no save is started: what is stored plays
\* no part in what is accepted
NextPoll ==
  \/ InitializeComponents(FALSE)
  \/ DomTextChange(HelloThere)
  \/ \E t \in {Hello, HelloThere} : DomTextChangeMissed(t)
  \/ \E m \in {"On", "Off"} : UpdateSettings(m)
  \/ InitialCheckFire
  \/ DebounceFire
  \/ PollFire
  \/ Tick

SpecPoll == InitPoll /\ [][NextPoll]_vars

\* timer callbacks run when they are due and time goes on
SpecPollFair ==
  /\ SpecPoll
  /\ WF_vars(Tick)
  /\ WF_vars(InitialCheckFire)
  /\ WF_vars(DebounceFire)
  /\ WF_vars(PollFire)

\* the observer watches and polls the container in the page, in a mode that
\* captures
Displaying ==
  /\ phase = "running"
  /\ domContainer # 0
  /\ lastContainer = domContainer
  /\ pollingInterval # -1
  /\ settings.subtitleMode # "Off"

\* the container shows a non-empty caption that is not the last accepted one
NewCaptionShown ==
  /\ Displaying
  /\ trim(domText[domContainer]) # EmptyText
  /\ normalize(domText[domContainer]) # normalize(lastSubtitle)

\* C32: a non-empty caption that differs from the last accepted one and
\* stays in the watched container while the observer observes in a mode other
\* than 'Off' is accepted in the end, whether or not a mutation event came
\* for it and whether or not the throttle rejected its first reading: the
\* state in which a new caption is on screen and not accepted does not last.
C32_PollPicksUpCaption ==
  NewCaptionShown ~> (~ Displaying \/ lastSubtitle = trim(domText[domContainer]))

\* 'Hello there.' replaced 'Hello.' with its mutation event missed, and was
\* accepted all the same
C32_Witness ==
  /\ hist.missed
  /\ Displaying
  /\ domText[domContainer] = HelloThere
  /\ hist.last.accepted
  /\ hist.last.text = HelloThere
  /\ lastSubtitle = HelloThere
  /\ capturedSubtitles = << Hello, HelloThere >>

(***************************************************************************)
(* Bursts of mutation events and the debounce timeout.                     *)
(***************************************************************************)
InitBurst == InitShowing("disney")

NextBurst ==
  \/ \E sessionOk \in BOOLEAN : InitializeComponents(sessionOk)
  \/ \E t \in {Hello, HelloThere} : DomTextChange(t)
  \/ DomAttributeChange
  \/ InitialCheckFire
  \/ DebounceFire
  \/ PollFire
  \/ StorageGetDone
  \/ StorageSetDone
  \/ Tick

SpecBurst == InitBurst /\ [][NextBurst]_vars

\* a relevant mutation event is delivered in this step
RelevantEvent == hist'.bursts # hist.bursts \/ (domText' # domText /\ domContainer \in Watched)

SessionCall(op, id, title) ==
  [ op |-> op, id |-> id, title |-> title, stage |-> "getSessions",
    sessions |-> << >>, time |-> 0, age |-> 0 ]

\* session 1 has been started by this page
InitSessions ==
  /\ InitIdle
  /\ subtitlesKey = << >>
  /\ sessionsKey = startSessionResult(<< >>, 1, "netflix", "url", "Old Title", 0)
  /\ nextId = 2
  /\ ai = AIIdle /\ content = ContentInit

\* cleanup calls endSession for the session of the page
CallEndSession ==
  /\ now <= MaxStoreOps
  /\ \A i \in 1..Len(saves) : saves[i].op # "endSession"
  /\ SessionCall("endSession", 1, "") \notin hist.completed
  /\ saves' = Append(saves, SessionCall("endSession", 1, ""))
  /\ now' = now + 1
  /\ UNCHANGED << pageVars, observerVars, currentSessionId, components,
                  lastSavedSubtitle, sinceSaved, storeVars, ai, content, hist,
                  lastOp, settingsSync >>

\* the title refresh calls updateSessionTitle for the session of the page
CallUpdateSessionTitle ==
  /\ now <= MaxStoreOps
  /\ \A i \in 1..Len(saves) : saves[i].op # "updateSessionTitle"
  /\ SessionCall("updateSessionTitle", 1, "New Title") \notin hist.completed
  /\ saves' = Append(saves, SessionCall("updateSessionTitle", 1, "New Title"))
  /\ now' = now + 1
  /\ UNCHANGED << pageVars, observerVars, currentSessionId, components,
                  lastSavedSubtitle, sinceSaved, storeVars, ai, content, hist,
                  lastOp, settingsSync >>

\* another page calls startSession: generateId(), then getSessions
CallStartSession ==
  /\ now <= MaxStoreOps
  /\ nextId = 2
  /\ saves' = Append(saves, SessionCall("startSession", nextId, Undefined))
  /\ nextId' = nextId + 1
  /\ now' = now + 1
  /\ UNCHANGED << pageVars, observerVars, currentSessionId, components,
                  lastSavedSubtitle, sinceSaved, subtitlesKey, sessionsKey, ai,
                  content, hist, lastOp, settingsSync >>

\* the call c has returned
HistCompleted(c) ==
  [ hist EXCEPT !.completed =
      @ \cup { SessionCall(c.op, c.id, c.title) } ]

\* getSessions resolves for the call at the head of the queue
SessionsRead ==
  /\ saves # << >>
  /\ Head(saves).stage = "getSessions"
  /\ LET c == Head(saves)
         found == findIndex(sessionsKey, c.id) # 0
         u == updateSessionTitleResult(sessionsKey, c.id, c.title)
     IN CASE c.op = "startSession" ->
               /\ saves' = Append(Tail(saves),
                     [ c EXCEPT !.stage = "saveSessions",
                                !.sessions = startSessionResult(sessionsKey, c.id,
                                               "netflix", "url", c.title, now) ])
               /\ hist' = hist
          [] c.op = "endSession" /\ found ->
               /\ saves' = Append(Tail(saves),
                     [ c EXCEPT !.stage = "getAllSubtitles",
                                !.sessions = sessionsKey, !.time = now ])
               /\ hist' = hist
          [] c.op = "updateSessionTitle" /\ u.wrote ->
               /\ saves' = Append(Tail(saves),
                     [ c EXCEPT !.stage = "saveSessions", !.sessions = u.sessions ])
               /\ hist' = hist
          [] OTHER ->
               /\ saves' = Tail(saves)
               /\ hist' = HistCompleted(c)
  /\ UNCHANGED << pageVars, observerVars, currentSessionId, components,
                  lastSavedSubtitle, sinceSaved, storeVars, ai, content, lastOp,
                  now, settingsSync >>

\* endSession: getAllSubtitles resolves, the count is set, saveSessions is
\* called
SubtitlesRead ==
  /\ saves # << >>
  /\ Head(saves).stage = "getAllSubtitles"
  /\ LET c == Head(saves)
     IN saves' = Append(Tail(saves),
          [ c EXCEPT !.stage = "saveSessions",
                     !.sessions = endSessionResult(c.sessions, subtitlesKey, c.id,
                                                   c.time).sessions ])
  /\ UNCHANGED << pageVars, observerVars, currentSessionId, components,
                  lastSavedSubtitle, sinceSaved, storeVars, ai, content, hist,
                  lastOp, now, settingsSync >>

\* saveSessions resolves: the collection the call holds replaces the stored
\* one, and the call returns
SessionsWritten ==
  /\ saves # << >>
  /\ Head(saves).stage = "saveSessions"
  /\ sessionsKey' = Head(saves).sessions
  /\ saves' = Tail(saves)
  /\ hist' = HistCompleted(Head(saves))
  /\ UNCHANGED << pageVars, observerVars, currentSessionId, components,
                  lastSavedSubtitle, sinceSaved, subtitlesKey, nextId, ai, content,
                  lastOp, now, settingsSync >>

NextSessions ==
  \/ CallEndSession
  \/ CallUpdateSessionTitle
  \/ CallStartSession
  \/ SessionsRead
  \/ SubtitlesRead
  \/ SessionsWritten

SpecSessions == InitSessions /\ [][NextSessions]_vars

\* the stored session with the id, or the empty set
StoredSession(id) ==
  { sessionsKey[i] : i \in { j \in 1..Len(sessionsKey) : sessionsKey[j].id = id } }

\* C36: what a session operation that has returned wrote stays in the
\* stored collection: a session whose endSession has returned has an endTime,
\* a session whose title update has returned has that title, and a session
\* whose startSession has returned is there.
C36_SessionWritesSurvive ==
  \A c \in hist.completed :
    /\ StoredSession(c.id) # {}
    /\ \A session \in StoredSession(c.id) :
         /\ c.op = "endSession" => session.endTime # NotEnded
         /\ c.op = "updateSessionTitle" => session.movieTitle = c.title

(***************************************************************************)
(* Page teardown: the beforeunload handlers.  cleanup calls endSession and *)
(* is suspended at its first await; destroy then calls stop().             *)
(***************************************************************************)
InitTeardown == InitShowing("disney")

Unload ==
  /\ phase = "running"
  /\ phase' = "stopped"
  /\ StopFields
  /\ saves' = IF currentSessionId # 0
              THEN Append(saves, SessionCall("endSession", currentSessionId, ""))
              ELSE saves
  /\ UNCHANGED << pageVars, platform, settings, sinceProcess,
                  leakedObservers, leakedPolls, retryTimer, initialChecks,
                  storageCallback, currentSessionId, components,
                  lastSavedSubtitle, sinceSaved, storeVars, ai, content,
                  lastOp, now, settingsSync >>

NextTeardown ==
  \/ \E sessionOk \in BOOLEAN : InitializeComponents(sessionOk)
  \/ \E t \in {Hello, HelloThere} : DomTextChange(t)
  \/ InitialCheckFire
  \/ DebounceFire
  \/ PollFire
  \/ Unload
  \/ StorageGetDone
  \/ StorageSetDone
  \/ SessionsRead
  \/ SubtitlesRead
  \/ SessionsWritten
  \/ Tick

SpecTeardown == InitTeardown /\ [][NextTeardown]_vars

\* C37: once the endSession call of the teardown has returned, the
\* subtitleCount of the session is the number of stored entries that carry
\* its id.
C37_FrozenCountIsFinal ==
  \A c \in hist.completed :
    c.op = "endSession" =>
      \A session \in StoredSession(c.id) :
        session.subtitleCount = sessionSubtitleCount(subtitlesKey, c.id)

(***************************************************************************)
(* The chat panel: AIChatInterface.sendMessage dispatches crx-ai-question, *)
(* the application's handler awaits getAIResponse and hands the reply to   *)
(* receiveAIResponse.  Several questions can be in flight; each has its    *)
(* own getAIResponse call.  The panel's message list and its               *)
(* conversationHistory grow together and are one sequence here.            *)
(***************************************************************************)
MaxQuestions == 2

Question == << "Who is he?" >>
ChatInputs == { Blank, Question }
ChatStatuses == { 200, 500 }
ChatBodies ==
  { [ isNull |-> FALSE, response |-> "It is a heist.", answer |-> "", result |-> "" ],
    [ isNull |-> FALSE, response |-> "", answer |-> "", result |-> "" ] }
ChatFetchFailures == { e \in FetchFailures : e.name = "TimeoutError" }

\* one crx-ai-question handler suspended in getAIResponse
NewCall ==
  [ pc |-> "getSettings", requests |-> 0, sent |-> << >>, status |-> 0,
    body |-> NoBody, thrown |-> NoError, outcome |-> Pending ]

InitChat ==
  /\ InitIdle
  /\ EmptyStoreInit
  /\ content = ContentInit
  /\ \E e \in Endpoints :
       ai = [ pc |-> "chat",
              stored |-> [backendEndpoint |-> e, apiKey |-> "sk-key",
                          aiPlatform |-> "openai"],
              open |-> TRUE, calls |-> << >>, messages |-> << >>, typing |-> 0 ]

\* AIChatInterface.addMessage
addMessage(a, role, call, message) ==
  [a EXCEPT !.messages =
     Append(@, [role |-> role, call |-> call, content |-> message,
                open |-> a.open])]

\* crx-openChat: the panel is shown
ChatOpen ==
  /\ ~ ai.open
  /\ ai' = [ai EXCEPT !.open = TRUE]
  /\ AIUnchanged

\* the close button or the backdrop: the panel is hidden, nothing else
ChatClose ==
  /\ ai.open
  /\ ai' = [ai EXCEPT !.open = FALSE]
  /\ AIUnchanged

\* The send button or Enter with `text` in the input: the user message and
\* a typing indicator are added and crx-ai-question is dispatched, whose
\* handler runs up to its await.
SendMessage(text) ==
  /\ ai.open
  /\ Len(ai.calls) < MaxQuestions
  /\ ai' = IF trim(text) = EmptyText
           THEN ai
           ELSE [addMessage(ai, "user", Len(ai.calls) + 1, trim(text))
                   EXCEPT !.typing = @ + 1, !.calls = Append(@, NewCall)]
  /\ AIUnchanged

\* the steps of getAIResponse for the i-th question
CallGetSettingsDone(i) ==
  /\ i \in 1..Len(ai.calls)
  /\ ai.calls[i].pc = "getSettings"
  /\ LET e == configError(ai.stored)
     IN ai' = [ai EXCEPT !.calls[i] =
                 IF e # NoError
                 THEN throwInto(@, e)
                 ELSE [@ EXCEPT !.pc = "fetch", !.requests = @ + 1,
                                !.sent = Append(@, payloadOf(ai.stored))]]
  /\ AIUnchanged

CallFetchFails(i, e) ==
  /\ i \in 1..Len(ai.calls)
  /\ ai.calls[i].pc = "fetch"
  /\ ai' = [ai EXCEPT !.calls[i] = throwInto(@, e)]
  /\ AIUnchanged

CallFetchResponds(i, status) ==
  /\ i \in 1..Len(ai.calls)
  /\ ai.calls[i].pc = "fetch"
  /\ ai' = [ai EXCEPT !.calls[i] =
              [@ EXCEPT !.pc = IF ok(status) THEN "json" ELSE "text",
                        !.status = status]]
  /\ AIUnchanged

CallErrorTextDone(i, errorText) ==
  /\ i \in 1..Len(ai.calls)
  /\ ai.calls[i].pc = "text"
  /\ ai' = [ai EXCEPT !.calls[i] =
              throwInto(@, statusError(ai.calls[i].status, errorText))]
  /\ AIUnchanged

CallJsonDone(i, data) ==
  /\ i \in 1..Len(ai.calls)
  /\ ai.calls[i].pc = "json"
  /\ ai' = [ai EXCEPT !.calls[i] =
              IF aiResponseOf(data) = ""
              THEN throwInto([@ EXCEPT !.body = data], Error(InvalidFormatMessage))
              ELSE [@ EXCEPT !.pc = "done", !.body = data,
                             !.outcome = Resolved(aiResponseOf(data))]]
  /\ AIUnchanged

\* A variant of the handler's last step that shows nothing while the panel
\* is closed.
ReceiveAIResponse_OnlyWhenOpen(i) ==
  /\ i \in 1..Len(ai.calls)
  /\ ai.calls[i].pc = "done"
  /\ ai' = IF ai.open
           THEN [addMessage(ai, "assistant", i, replyFor(ai.calls[i].outcome))
                   EXCEPT !.typing = IF @ > 0 THEN @ - 1 ELSE 0,
                          !.calls[i].pc = "replied"]
           ELSE [ai EXCEPT !.calls[i].pc = "replied"]
  /\ AIUnchanged

\* The handler of the i-th question resumes after its await, in the try
\* block or in the catch block, and calls receiveAIResponse: one typing
\* indicator is removed and the assistant message is added.
ReceiveAIResponse(i) ==
  /\ i \in 1..Len(ai.calls)
  /\ ai.calls[i].pc = "done"
  /\ ai' = [addMessage(ai, "assistant", i, replyFor(ai.calls[i].outcome))
              EXCEPT !.typing = IF @ > 0 THEN @ - 1 ELSE 0,
                     !.calls[i].pc = "replied"]
  /\ AIUnchanged

\* one step of the getAIResponse call of the i-th question
CallAdvances(i) ==
  \/ CallGetSettingsDone(i)
  \/ \E e \in ChatFetchFailures : CallFetchFails(i, e)
  \/ \E status \in ChatStatuses : CallFetchResponds(i, status)
  \/ CallErrorTextDone(i, "Unknown error")
  \/ \E data \in ChatBodies : CallJsonDone(i, data)

NextChat ==
  \/ ChatOpen
  \/ ChatClose
  \/ \E text \in ChatInputs : SendMessage(text)
  \/ \E i \in 1..MaxQuestions : CallGetSettingsDone(i)
  \/ \E i \in 1..MaxQuestions, e \in ChatFetchFailures : CallFetchFails(i, e)
  \/ \E i \in 1..MaxQuestions, status \in ChatStatuses : CallFetchResponds(i, status)
  \/ \E i \in 1..MaxQuestions : CallErrorTextDone(i, "Unknown error")
  \/ \E i \in 1..MaxQuestions, data \in ChatBodies : CallJsonDone(i, data)
  \/ \E i \in 1..MaxQuestions : ReceiveAIResponse(i)

SpecChat == InitChat /\ [][NextChat]_vars

\* Storage answers, the request settles within its 30 s timeout together
\* with the reading of its body, and a settled promise resumes the handler.
SpecChatFair ==
  /\ SpecChat
  /\ \A i \in 1..MaxQuestions :
       WF_vars(CallAdvances(i)) /\ WF_vars(ReceiveAIResponse(i))

\* the assistant messages shown for the i-th question
AssistantMessages(i) ==
  { k \in 1..Len(ai.messages) :
      ai.messages[k].role = "assistant" /\ ai.messages[k].call = i }

\* C38: every question sent from the panel eventually has exactly one
\* assistant message, the answer or an error text, and never has two,
\* whatever else is in flight and whether the panel is open or closed.
C38_OneAssistantMessagePerQuestion ==
  \A i \in 1..MaxQuestions :
    /\ [](Cardinality(AssistantMessages(i)) <= 1)
    /\ (Len(ai.calls) >= i) ~> (Cardinality(AssistantMessages(i)) = 1)

\* Two questions were in flight together; the second was answered first,
\* and one of the replies arrived while the panel was closed.
C38_Witness ==
  /\ ai.pc = "chat"
  /\ Len(ai.calls) = 2
  /\ Len(ai.messages) = 4
  /\ ai.messages[2].role = "user"
  /\ ai.messages[3].role = "assistant" /\ ai.messages[3].call = 2
  /\ ai.messages[4].role = "assistant" /\ ai.messages[4].call = 1
  /\ ~ ai.messages[4].open

(***************************************************************************)
(* Settings.  The options page and the overlay menu write single keys to   *)
(* chrome.storage.local (the overlay's own crx-setting-change event has no *)
(* listener); the chat panel's settings tab writes a key and dispatches    *)
(* crx-settings-changed from the write's callback.  The application hears  *)
(* storage.onChanged and crx-settings-changed, merges the change into      *)
(* this.settings, writes the whole record back and, once that write has    *)
(* completed, hands the two observer settings to the observer.  onChanged  *)
(* reports the keys whose stored value changed.  Of the settings record    *)
(* the two keys the observer reads are modelled.                           *)
(***************************************************************************)
MaxChanges == 2

SettingKeys == { "subtitleMode", "selectedLanguage" }
SettingValues(key) ==
  IF key = "subtitleMode" THEN { "On", "Off" } ELSE { "English", "Spanish" }
DefaultSettings == [ subtitleMode |-> "On", selectedLanguage |-> "English" ]

\* { ...a, ...d }
Merge(a, d) ==
  [ k \in DOMAIN a \cup DOMAIN d |-> IF k \in DOMAIN d THEN d[k] ELSE a[k] ]

\* { [key]: value }
OneKey(key, value) == [ k \in { key } |-> value ]

InitSync ==
  /\ domContainer = 1
  /\ domText = [e \in Elements |-> EmptyText]
  /\ domBudget = 0
  /\ platform = "disney"
  /\ phase = "running"
  /\ settings = DefaultSettings
  /\ lastSubtitle = EmptyText
  /\ sinceProcess = ProcessClockCap
  /\ observer = 1
  /\ leakedObservers = {}
  /\ lastContainer = 1
  /\ processingTimeout = FALSE
  /\ debounceTimer = NoTimer
  /\ pollingInterval = -1
  /\ leakedPolls = {}
  /\ retryTimer = -1
  /\ initialChecks = {}
  /\ checkInterval = -1
  /\ capturedSubtitles = << >>
  /\ storageCallback = TRUE
  /\ currentSessionId = 0
  /\ components = [ overlayInterface |-> TRUE, aiChatInterface |-> TRUE,
                    subtitleObserver |-> TRUE, rendered |-> {} ]
  /\ lastSavedSubtitle = EmptyText
  /\ sinceSaved = MIN_SAVE_INTERVAL
  /\ saves = << >>
  /\ settingsSync = [ pc |-> "running", app |-> DefaultSettings,
                      stored |-> DefaultSettings, requests |-> << >>,
                      inbox |-> << >>, changes |-> 0 ]
  /\ EmptyStoreInit
  /\ ai = AIIdle
  /\ content = ContentInit
  /\ hist = HistInit
  /\ lastOp = NoOp
  /\ now = 1

SyncUnchanged ==
  UNCHANGED << pageVars, platform, phase, lastSubtitle, sinceProcess, observer,
               leakedObservers, lastContainer, processingTimeout, debounceTimer,
               pollingInterval, leakedPolls, retryTimer, initialChecks,
               checkInterval, capturedSubtitles, storageCallback,
               currentSessionId, components, lastSavedSubtitle, sinceSaved,
               saves, storeVars, ai, content, hist, lastOp, now >>

\* TellMeMoreApp.handleSettingsChange up to its await: this.settings is
\* merged and the whole record is written to storage
handleSettingsChange(s, newSettings) ==
  [s EXCEPT !.app = Merge(@, newSettings),
            !.requests = Append(@, [from |-> "app",
                                    data |-> Merge(s.app, newSettings)])]

\* The options page saves a key, or a select of the overlay menu changes.
PageSetsKey(key, value) ==
  /\ settingsSync.changes < MaxChanges
  /\ settingsSync' =
       [settingsSync EXCEPT !.changes = @ + 1,
          !.requests = Append(@, [from |-> "page", data |-> OneKey(key, value)])]
  /\ UNCHANGED settings
  /\ SyncUnchanged

\* A field of the chat panel's settings tab changes.
ChatSetsKey(key, value) ==
  /\ settingsSync.changes < MaxChanges
  /\ settingsSync' =
       [settingsSync EXCEPT !.changes = @ + 1,
          !.requests = Append(@, [from |-> "chat", data |-> OneKey(key, value)])]
  /\ UNCHANGED settings
  /\ SyncUnchanged

\* chrome.storage.local serves the oldest set request: the keys are stored,
\* onChanged is sent for the keys whose value changed, and the request's
\* callback, if it has one, is sent; both travel to the page in one queue,
\* in either order.
StorageSetServed(eventFirst) ==
  /\ settingsSync.requests # << >>
  /\ LET r == Head(settingsSync.requests)
         changed == { k \in DOMAIN r.data : r.data[k] # settingsSync.stored[k] }
         event == IF changed = {} THEN << >>
                  ELSE << [kind |-> "changed", from |-> r.from,
                           data |-> [k \in changed |-> r.data[k]]] >>
         callback == IF r.from = "page" THEN << >>
                     ELSE << [kind |-> "callback", from |-> r.from,
                              data |-> r.data] >>
     IN settingsSync' =
          [settingsSync EXCEPT
             !.requests = Tail(@),
             !.stored = Merge(@, r.data),
             !.inbox = IF eventFirst THEN @ \o event \o callback
                       ELSE @ \o callback \o event]
  /\ UNCHANGED settings
  /\ SyncUnchanged

\* storage.onChanged arrives: handleStorageChanges keeps the keys of
\* this.settings and calls handleSettingsChange with their new values.
StorageChanged ==
  /\ settingsSync.inbox # << >>
  /\ Head(settingsSync.inbox).kind = "changed"
  /\ settingsSync' =
       handleSettingsChange([settingsSync EXCEPT !.inbox = Tail(@)],
                            Head(settingsSync.inbox).data)
  /\ UNCHANGED settings
  /\ SyncUnchanged

\* The callback of the chat panel's write: crx-settings-changed is
\* dispatched and handled.
ChatSettingSaved ==
  /\ settingsSync.inbox # << >>
  /\ Head(settingsSync.inbox).kind = "callback"
  /\ Head(settingsSync.inbox).from = "chat"
  /\ settingsSync' =
       handleSettingsChange([settingsSync EXCEPT !.inbox = Tail(@)],
                            Head(settingsSync.inbox).data)
  /\ UNCHANGED settings
  /\ SyncUnchanged

\* handleSettingsChange resumes after its await: the observer is given the
\* two settings as this.settings now has them.
SettingsSaved ==
  /\ settingsSync.inbox # << >>
  /\ Head(settingsSync.inbox).kind = "callback"
  /\ Head(settingsSync.inbox).from = "app"
  /\ settingsSync' = [settingsSync EXCEPT !.inbox = Tail(@)]
  /\ settings' = IF components.subtitleObserver
                 THEN Merge(settings, settingsSync.app)
                 ELSE settings
  /\ SyncUnchanged

NextSync ==
  \/ \E key \in SettingKeys : \E value \in SettingValues(key) : PageSetsKey(key, value)
  \/ \E key \in SettingKeys : \E value \in SettingValues(key) : ChatSetsKey(key, value)
  \/ \E eventFirst \in BOOLEAN : StorageSetServed(eventFirst)
  \/ StorageChanged
  \/ ChatSettingSaved
  \/ SettingsSaved

SpecSync == InitSync /\ [][NextSync]_vars

\* Storage serves every request and every event and callback is delivered.
SpecSyncFair ==
  /\ SpecSync
  /\ WF_vars(\E eventFirst \in BOOLEAN : StorageSetServed(eventFirst))
  /\ WF_vars(StorageChanged)
  /\ WF_vars(ChatSettingSaved)
  /\ WF_vars(SettingsSaved)

\* nothing is in flight and the observer has the stored values
SettingsSettled ==
  /\ settingsSync.requests = << >>
  /\ settingsSync.inbox = << >>
  /\ \A k \in SettingKeys : settings[k] = settingsSync.stored[k]

\* C39: after changes of subtitleMode or selectedLanguage in local storage
\* the handling comes to rest with the observer's settings equal to the
\* stored values; the write-back does not keep the handling going for ever.
C39_SettingsSettle == <>[]SettingsSettled

(***************************************************************************)
(* The caption container is replaced: the page removes the element and     *)
(* puts another one in its place, on Netflix, where the periodic check     *)
(* runs.                                                                   *)
(***************************************************************************)
InitReplace == InitShowing("netflix")

NextReplace ==
  \/ InitializeComponents(FALSE)
  \/ DomTextChange(HelloThere)
  \/ \E e \in Elements : DomAddContainer(e)
  \/ DomRemoveContainer
  \/ RetryFire
  \/ InitialCheckFire
  \/ DebounceFire
  \/ PollFire
  \/ LeakedPollFire
  \/ PeriodicCheckFire
  \/ Tick

SpecReplace == InitReplace /\ [][NextReplace]_vars

\* timer callbacks run when they are due and time goes on
SpecReplaceFair ==
  /\ SpecReplace
  /\ WF_vars(Tick)
  /\ WF_vars(RetryFire)
  /\ WF_vars(InitialCheckFire)
  /\ WF_vars(DebounceFire)
  /\ WF_vars(PollFire)
  /\ WF_vars(LeakedPollFire)
  /\ WF_vars(PeriodicCheckFire)

\* C40: whichever element is the caption container of the page, the running
\* observer eventually watches and polls it (or it has left the page again).
C40_FollowsReplacedContainer ==
  \A e \in Elements :
    (phase = "running" /\ domContainer = e)
      ~> (domContainer # e \/ (observer = e /\ lastContainer = e))
====
